---- MODULE Spec2Model ----
(***************************************************************************)
(* Model of log-sentry: the ResourceRecorder poll state machine, the       *)
(* BoltStore persistence layer and the worker pool.                        *)
(*                                                                         *)
(* Time is counted in whole ticks of the wall clock.  Percentages are      *)
(* integers.  Random 64-bit ids (generateID, generateStoreID) are modelled *)
(* as fresh numbers drawn from nextId.                                     *)
(***************************************************************************)
EXTENDS Integers, Sequences, FiniteSets, TLC

VARIABLES
    now,          \* wall clock (time.Now), in ticks
    tz,           \* UTC offset of the host's local zone (time.Local), in ticks
    nextId,       \* source of fresh random ids
    activeEvent,  \* ResourceRecorder.activeEvent: <<>> (nil) or <<event>>
    gauges,       \* lastCPU / lastMem / lastDisk / GPU gauges set by the last poll
    eventCount,   \* crash_events_total counter
    dbOpen,       \* a BoltStore session holds the database file
    appStatus,    \* bucket app_state, key "status": "" (absent), "running", "stopped"
    crashEvents,  \* bucket crash_events: id -> blob
    crashMeta,    \* bucket crash_meta: id -> CrashSummary
    heartbeat,    \* heartbeat snapshot kept by the store: <<>> or <<snapshot>>
    attacks,      \* bucket attacks: key -> AttackEntry
    lastExit,     \* history: how the previous store session ended
    hist,         \* history: cpu readings of the polls so far (see Track)
    JobQueue,     \* Pool.JobQueue: the buffered channel of jobs
    workers,      \* per worker goroutine: where it is and the job it holds
    WebAttacks,   \* LogCollector.WebAttacks counter family: labels -> count
    sshMetrics,   \* LogCollector's SSHLoginAttempts, SSHDisconnects and SSHActiveSessions
    submitted,    \* history: the jobs handed to Submit, in order
    taken,        \* history: how often each submitted job was received
    processed,    \* history: the jobs whose loop body ran to its end
    Stats,        \* AnomalyDetector.Stats: ip -> IPStats
    nextSweep,    \* the instant the cleanupLoop ticker fires next
    lastCall,     \* history: <<>> or the last Check call at this instant and its result
    obs,          \* history: per ip, its Check calls so far
    process,      \* the agent's process: "up", or "down" (not started, exited, died)
    commitFails,  \* bbolt cannot commit a write transaction (disk full, i/o error)
    underMu,      \* history: what the last poll did while it held ResourceRecorder.mu
    query,        \* history: the last call of an API or of Close, its arguments and its result
    pollers       \* per goroutine that runs poll: where it is in poll and its local variables

vars == <<now, tz, nextId, activeEvent, gauges, eventCount, dbOpen, appStatus,
          crashEvents, crashMeta, heartbeat, attacks, lastExit, hist,
          JobQueue, workers, WebAttacks, sshMetrics, submitted, taken, processed,
          Stats, nextSweep, lastCall, obs, process, commitFails, underMu, query, pollers>>

recVars   == <<activeEvent, gauges, eventCount, hist, pollers>>
storeVars == <<dbOpen, appStatus, crashEvents, crashMeta, heartbeat, attacks, lastExit>>
poolVars  == <<JobQueue, workers, WebAttacks, sshMetrics, submitted, taken, processed>>
anomVars  == <<Stats, nextSweep, lastCall, obs>>
envVars   == <<process, commitFails>>

----------------------------------------------------------------------------
(* Bounds of the model *)

MaxTick == 4      \* the recorder's clock stops here
MaxClock == 3     \* the clock stops here in the store-only specification
ScriptLen == 4    \* longest recorded history of cpu-only polls
MaxIds == 3       \* ids handed out in the store-only specification
MaxCased == 8     \* positions of a process name that are tried in upper case
MaxSnapshots == 4 \* most snapshots of an event handed to Analyze
MaxForcePolls == 2   \* calls of ForcePoll in the specification of concurrent polls
MaxAsked == 3     \* most snapshots a call of GetSnapshots asks for
MaxSshEvents == 5 \* entries handed to ProcessSSH in the SSH specification
MaxProcs == 24    \* longest process list of the snapshot specification
MaxStatusChecks == 3   \* Check calls per ip in the specification of the status ranges
MaxRecords == 2   \* records saved in the specification with damaged records
MaxAttacks == 21  \* attack entries saved in the attack-API specification
MaxAttackClock == 2   \* the clock stops here in the attack-API specification
MaxReqPage == 1       \* largest page a list query asks for
MaxReqPageSize == 101   \* the page sizes a list query asks for run up to here
Headroom == 60    \* free slots of the queue at the start of the queue-only specification
MaxChecks == 12   \* Check calls in the detector-only specification
MaxOtherChecks == 2   \* of which by the second ip
MaxSeconds == 121 \* the clock stops here in the detector-only specification
MaxBurstSeconds == 1  \* seconds followed one by one after each ticker tick

(* Program constants *)

DefaultThreshold == 90
HysteresisGap == 5

threshold  == DefaultThreshold
hysteresis == threshold - HysteresisGap

----------------------------------------------------------------------------
(* Time formatting: time.Time.Format(time.RFC3339) and time.Parse.         *)
(* An RFC3339 string is the local date-time digits followed by the zone    *)
(* suffix ("Z" for UTC, "+hh:mm" otherwise); it is modelled by the pair    *)
(* of the local reading and the offset that produced the suffix.           *)

Nil == <<>>

NoQuery == [op |-> ""]

\* NewLogCollector: the SSH metrics before any event
NoSshMetrics == [SSHLoginAttempts |-> <<>>, SSHDisconnects |-> 0, SSHActiveSessions |-> 0]

\* the goroutines that call poll: the monitoring loop and a caller of ForcePoll
Goroutines == {"ticker", "force"}

\* a goroutine outside poll
NotPolling == [pc |-> "idle", r |-> <<>>, snap |-> <<>>, isActive |-> FALSE, calls |-> 0]

EmptyStamp == [loc |-> 0, off |-> 0]

FormatRFC3339(t, off) == [loc |-> t + off, off |-> off]

ParseRFC3339(s) == IF s = EmptyStamp THEN 0 ELSE s.loc - s.off

\* Byte-wise string comparison a > b of two RFC3339 strings: the date-time
\* digits decide first; with equal digits the suffix decides, and "Z" (0x5A)
\* sorts after "+hh:mm" (0x2B).
StampGreater(a, b) ==
    \/ a.loc > b.loc
    \/ a.loc = b.loc /\ a.off = 0 /\ b.off > 0

----------------------------------------------------------------------------
(* Inputs of a poll: what /proc, statfs and nvidia-smi report *)

NoProcs     == <<>>
NormalProcs == <<[pid |-> 1, cpu |-> 10, rss |-> 100, oom |-> 100]>>
OomProcs    == <<[pid |-> 1, cpu |-> 10, rss |-> 100, oom |-> 801]>>

CpuLevels == {40, 84, 85, 86, 88, 90, 95}

Reading(c, m, d, g, p) == [cpu |-> c, mem |-> m, disk |-> d, gpu |-> g, procs |-> p]

\* cpu moves alone, every other metric low
CpuOnlyReadings == {Reading(c, 40, 40, 0, NormalProcs) : c \in CpuLevels}

\* one other metric in the hysteresis band or over the threshold, several
\* metrics over the threshold at once, and the process-list variants
OtherReadings ==
    {Reading(40, m, 40, 0, NormalProcs) : m \in {85, 95}}
      \cup {Reading(40, 40, d, 0, NormalProcs) : d \in {85, 95}}
      \cup {Reading(40, 40, 40, g, NormalProcs) : g \in {85, 96}}
      \cup {Reading(95, 95, 40, 0, NormalProcs), Reading(95, 40, 40, 0, NoProcs),
            Reading(40, 95, 40, 0, OomProcs)}

Readings == CpuOnlyReadings \cup OtherReadings

\* every combination of metrics low or at the threshold, and all of them just
\* under it
TriggerReadings ==
    {Reading(c, m, d, g, NormalProcs) : c \in {40, 90}, m \in {40, 90}, d \in {40, 90}, g \in {0, 90}}
      \cup {Reading(89, 89, 89, 89, NormalProcs)}

----------------------------------------------------------------------------
(* Forensic analysis *)

Last(s) == s[Len(s)]

\* one pass of the insertion sort: x moves ahead of the entries whose field is
\* smaller
RECURSIVE InsertDescBy(_, _, _)
InsertDescBy(s, x, field) ==
    IF s = <<>> THEN <<x>>
    ELSE IF x[field] > s[Len(s)][field]
         THEN Append(InsertDescBy(SubSeq(s, 1, Len(s) - 1), x, field), s[Len(s)])
         ELSE Append(s, x)

\* sort.Slice with the comparison procs[i].F > procs[j].F
RECURSIVE SortDescBy(_, _)
SortDescBy(s, field) ==
    IF s = <<>> THEN <<>>
    ELSE InsertDescBy(SortDescBy(SubSeq(s, 1, Len(s) - 1), field), s[Len(s)], field)

\* the first n entries of a list, or all of them
take(procs, n) == SubSeq(procs, 1, IF Len(procs) < n THEN Len(procs) ELSE n)

sortByMem(procs, n) == take(SortDescBy(procs, "rss"), n)

sortByCPU(procs, n) == take(SortDescBy(procs, "cpu"), n)

\* variant: an oom score of 800 is critical already
OomCritical_inclusive(p) == p.oom >= 800

\* the OOM killer would take the process
OomCritical(p) == p.oom > 800

ClimbingSentence == "Memory was climbing rapidly in the seconds before crash."

\* mutant: the CPU rule skipped
generateVerdict_noCpuRule(last, spikeDetected) ==
    IF Len(last.procs) = 0 THEN <<"No process data in last snapshot.", "unknown", "">>
    ELSE IF last.mem > 80
         THEN <<"MEMORY EXHAUSTION",
                IF OomCritical(sortByMem(last.procs, 1)[1]) THEN "critical" ELSE "high",
                IF spikeDetected THEN ClimbingSentence ELSE "">>
    ELSE IF last.gpu > 95 THEN <<"GPU MEMORY EXHAUSTION", "critical", "">>
    ELSE <<"Top resource consumer at last snapshot", "medium", "">>

\* generateVerdict from the last snapshot: <<verdict, severity, closing
\* sentence>>, the verdict by the rule that wrote it and the sentence appended
\* to it last ("" when there is none)
generateVerdict(last, spikeDetected) ==
    IF Len(last.procs) = 0 THEN <<"No process data in last snapshot.", "unknown", "">>
    ELSE IF last.mem > 80
         THEN <<"MEMORY EXHAUSTION",
                IF OomCritical(sortByMem(last.procs, 1)[1]) THEN "critical" ELSE "high",
                IF spikeDetected THEN ClimbingSentence ELSE "">>
    ELSE IF last.cpu > 90 THEN <<"CPU SATURATION", "high", "">>
    ELSE IF last.gpu > 95 THEN <<"GPU MEMORY EXHAUSTION", "critical", "">>
    ELSE <<"Top resource consumer at last snapshot", "medium", "">>

SpikeDetected(snapshots) ==
    /\ Len(snapshots) >= 3
    /\ \/ snapshots[Len(snapshots)].mem > snapshots[Len(snapshots) - 2].mem + 5
       \/ snapshots[Len(snapshots)].cpu > snapshots[Len(snapshots) - 2].cpu + 10

\* Analyze: the report's verdict and severity (and the verdict's closing sentence)
Analyze(snapshots) ==
    IF Len(snapshots) = 0
    THEN <<"No snapshots available.", "unknown", "">>
    ELSE generateVerdict(Last(snapshots), SpikeDetected(snapshots))

----------------------------------------------------------------------------
(* BoltStore *)

Put(bucket, k, v) == [x \in DOMAIN bucket \cup {k} |-> IF x = k THEN v ELSE bucket[x]]

Delete(bucket, keys) == [x \in DOMAIN bucket \ keys |-> bucket[x]]

EmptyBucket == [x \in {} |-> 0]

NoTrigger == <<>>

\* bytes in a bucket that json.Unmarshal rejects
CorruptBlob == [corrupt |-> TRUE]

\* variant: no record is ever taken for undecodable
Undecodable_never(v) == FALSE

\* json.Unmarshal returned an error
Undecodable(v) == v = CorruptBlob

\* what the scan holds after json.Unmarshal: the record, or the zero value it
\* started from
Decoded(v, zero) == IF v = CorruptBlob THEN zero ELSE v

ZeroSummary ==
    [id |-> 0, started_at |-> EmptyStamp, ended_at |-> EmptyStamp, trigger |-> NoTrigger,
     verdict |-> "", severity |-> "", resolved |-> FALSE, snapshot_count |-> 0]

ZeroAttack ==
    [id |-> 0, timestamp |-> EmptyStamp, service |-> "", type |-> "", severity |-> "",
     source_ip |-> "", endpoint |-> ""]

ForcefulTrigger == <<"Forceful Shutdown / Power Loss">>

\* fmt.Sprintf("<metric>:%.1f%%", v): the metric name and the value in tenths
TriggerString(metric, v) == <<metric, v * 10>>

\* the CrashSummary that SaveCrashEvent writes to crash_meta
SaveSummary(id, severity, trigger, startedAt, resolved, snapshotCount) ==
    [id |-> id, started_at |-> FormatRFC3339(startedAt, 0), ended_at |-> EmptyStamp,
     trigger |-> trigger, verdict |-> "", severity |-> severity,
     resolved |-> resolved, snapshot_count |-> snapshotCount]

\* SaveCrashEvent: both buckets in one transaction; an error (database not
\* open, commit failed) leaves both untouched
SaveCrashEvent(data, id, severity, trigger, startedAt, resolved, snapshotCount) ==
    IF dbOpen /\ ~commitFails
    THEN /\ crashEvents' = Put(crashEvents, id, data)
         /\ crashMeta' = Put(crashMeta, id,
                SaveSummary(id, severity, trigger, startedAt, resolved, snapshotCount))
    ELSE UNCHANGED <<crashEvents, crashMeta>>

\* variant: the synthesized event as an open event of severity high
SyntheticSummary_unresolved(id) ==
    [id |-> id, started_at |-> FormatRFC3339(now, tz), ended_at |-> FormatRFC3339(now, tz),
     trigger |-> ForcefulTrigger, verdict |-> "forcefully terminated",
     severity |-> "high", resolved |-> FALSE, snapshot_count |-> 0]

\* the summary of the event that checkAndMarkRunning synthesizes
SyntheticSummary(id) ==
    [id |-> id, started_at |-> FormatRFC3339(now, tz), ended_at |-> FormatRFC3339(now, tz),
     trigger |-> ForcefulTrigger, verdict |-> "forcefully terminated",
     severity |-> "critical", resolved |-> TRUE, snapshot_count |-> 0]

SyntheticBlob == [error |-> "No snapshots available. System terminated abruptly."]

UncleanShutdown == appStatus = "running"

\* checkAndMarkRunning, within NewBoltStore
checkAndMarkRunning ==
    /\ IF UncleanShutdown
       THEN /\ crashEvents' = Put(crashEvents, nextId, SyntheticBlob)
            /\ crashMeta' = Put(crashMeta, nextId, SyntheticSummary(nextId))
            /\ nextId' = nextId + 1
       ELSE UNCHANGED <<crashEvents, crashMeta, nextId>>
    /\ appStatus' = "running"

\* NewBoltStore: bolt.Open takes the file lock, so only one session at a time
NewBoltStore ==
    /\ ~dbOpen
    /\ nextId <= MaxIds
    /\ dbOpen' = TRUE
    /\ checkAndMarkRunning
    /\ process' = "up"
    /\ UNCHANGED <<now, tz, heartbeat, attacks, lastExit, recVars, poolVars, anomVars,
                   commitFails, underMu, query>>

\* variant: Close without MarkStopped
MarkStopped_noop == UNCHANGED appStatus

MarkStopped == appStatus' = "stopped"

\* variant: a Close on a closed store writes the status all the same
CloseClosed_writes == appStatus' = "running" /\ UNCHANGED <<dbOpen, lastExit>>

\* Close on a store that Close has closed before: db.Update fails with "database
\* not open" before it runs the function, and db.Close finds nothing to release
CloseClosed == UNCHANGED <<appStatus, dbOpen, lastExit>>

\* Close: MarkStopped, then db.Close; the call is made on a store handle, one
\* that is open or that an earlier Close has closed
Close ==
    /\ dbOpen \/ lastExit = "close"
    /\ IF dbOpen
       THEN MarkStopped /\ dbOpen' = FALSE /\ lastExit' = "close"
       ELSE CloseClosed
    /\ query' = [op |-> "close", again |-> ~dbOpen]
    /\ UNCHANGED <<now, tz, nextId, crashEvents, crashMeta, heartbeat, attacks, recVars,
                   poolVars, anomVars, envVars, underMu>>

\* the process ends without running main's deferred calls: memory is lost, the
\* file keeps what was committed
Dies(how) ==
    /\ process' = "down"
    /\ dbOpen' = FALSE
    /\ lastExit' = how
    /\ activeEvent' = Nil
    /\ JobQueue' = <<>>
    /\ workers' = [w \in DOMAIN workers |-> [pc |-> "receive", job |-> <<>>]]
    /\ Stats' = [x \in {} |-> 0]
    /\ pollers' = [g \in DOMAIN pollers |-> NotPolling]
    /\ UNCHANGED <<now, tz, nextId, appStatus, crashEvents, crashMeta, heartbeat, attacks,
                   gauges, eventCount, hist, WebAttacks, sshMetrics, submitted, taken, processed,
                   nextSweep, lastCall, obs, commitFails, underMu, query>>

\* the process is killed (SIGKILL, OOM killer, power loss)
Terminate ==
    /\ dbOpen
    /\ Dies("kill")

\* time passes
Tick ==
    /\ now < MaxClock
    /\ now' = now + 1
    /\ UNCHANGED <<tz, nextId, storeVars, recVars, poolVars, anomVars, envVars, underMu, query>>

\* the ids DeleteOldCrashEvents collects: parsed started_at non-zero and before cutoff
OldCrashKeys(cutoff) ==
    {k \in DOMAIN crashMeta :
        /\ ~Undecodable(crashMeta[k])
        /\ ParseRFC3339(crashMeta[k].started_at) # 0
        /\ ParseRFC3339(crashMeta[k].started_at) < cutoff}

\* variant: the sweep deletes from crash_meta only
DeletedFromEvents_none(keys) == {}

DeletedFromEvents(keys) == keys

DeleteOldCrashEvents(olderThan) ==
    /\ dbOpen
    /\ crashMeta' = Delete(crashMeta, OldCrashKeys(now - olderThan))
    /\ crashEvents' = Delete(crashEvents, DeletedFromEvents(OldCrashKeys(now - olderThan)))
    /\ UNCHANGED <<now, tz, nextId, dbOpen, appStatus, heartbeat, attacks, lastExit, recVars,
                   poolVars, anomVars, envVars, underMu, query>>

----------------------------------------------------------------------------
(* Listing: normalizeOpts, the filters, the sort and paginate *)

DefaultPageSize == 20
MaxPageSize == 100

normalizeOpts(opts) ==
    [opts EXCEPT !.page = IF @ < 1 THEN 1 ELSE @,
                 !.page_size = IF @ < 1 \/ @ > MaxPageSize THEN DefaultPageSize ELSE @]

\* case folding of strings.EqualFold, on the strings the model uses
Fold(s) ==
    CASE s = "CRITICAL" -> "critical"
      [] s = "HIGH" -> "high"
      [] s = "CPU" -> "cpu"
      [] OTHER -> s

FoldTrigger(t) == [i \in DOMAIN t |-> IF i = 1 THEN Fold(t[i]) ELSE t[i]]

\* the filter chain of ListCrashEvents on one summary
PassesFilters(cs, opts) ==
    /\ opts.severity = "" \/ Fold(cs.severity) = Fold(opts.severity)
    /\ opts.trigger = NoTrigger \/ FoldTrigger(cs.trigger) = FoldTrigger(opts.trigger)
    /\ opts.since = 0 \/ ~(ParseRFC3339(cs.started_at) < opts.since)
    /\ opts.until = 0 \/ ~(ParseRFC3339(cs.started_at) > opts.until)

Min(S) == CHOOSE x \in S : \A y \in S : x <= y

\* Bucket.ForEach visits the keys in ascending order
RECURSIVE KeysAscending(_)
KeysAscending(S) ==
    IF S = {} THEN <<>> ELSE <<Min(S)>> \o KeysAscending(S \ {Min(S)})

RECURSIVE Filtered(_, _, _)
Filtered(bucket, keys, opts) ==
    IF keys = <<>> THEN <<>>
    ELSE (IF /\ ~Undecodable(bucket[Head(keys)])
                /\ PassesFilters(Decoded(bucket[Head(keys)], ZeroSummary), opts)
             THEN <<Decoded(bucket[Head(keys)], ZeroSummary)>>
             ELSE <<>>)
           \o Filtered(bucket, Tail(keys), opts)

\* the comparison handed to sort.Slice: newest first, on the started_at strings
NewerFirst(a, b) == StampGreater(a.started_at, b.started_at)

Front(s) == SubSeq(s, 1, Len(s) - 1)

\* one pass of the insertion sort sort.Slice runs on short slices
RECURSIVE InsertSorted(_, _)
InsertSorted(s, x) ==
    IF s = <<>> THEN <<x>>
    ELSE IF NewerFirst(x, s[Len(s)])
         THEN Append(InsertSorted(Front(s), x), s[Len(s)])
         ELSE Append(s, x)

RECURSIVE SortNewestFirst(_)
SortNewestFirst(s) ==
    IF s = <<>> THEN <<>> ELSE InsertSorted(SortNewestFirst(Front(s)), s[Len(s)])

paginate(all, opts) ==
    LET total == Len(all)
        start == (opts.page - 1) * opts.page_size
        end == IF start + opts.page_size > total THEN total ELSE start + opts.page_size
    IN  IF start >= total THEN <<>> ELSE SubSeq(all, start + 1, end)

\* ListCrashEvents on a crash_meta bucket: the items of the requested page
ListCrashEventsIn(meta, opts) ==
    paginate(SortNewestFirst(Filtered(meta, KeysAscending(DOMAIN meta), normalizeOpts(opts))),
             normalizeOpts(opts))

ListCrashEvents(opts) == ListCrashEventsIn(crashMeta, opts)

DefaultOpts ==
    [page |-> 1, page_size |-> 0, severity |-> "", trigger |-> NoTrigger,
     since |-> 0, until |-> 0]

\* a caller saves a resolved event under a fresh id (the store's public API)
CallSaveCrashEvent(severity, trigger, startedAt) ==
    /\ dbOpen
    /\ nextId <= MaxIds
    /\ SaveCrashEvent([id |-> nextId], nextId, severity, trigger, startedAt, TRUE, 1)
    /\ nextId' = nextId + 1
    /\ UNCHANGED <<now, tz, dbOpen, appStatus, heartbeat, attacks, lastExit, recVars,
                   poolVars, anomVars, envVars, underMu, query>>

----------------------------------------------------------------------------
(* ResourceRecorder.poll *)

\* mutant: the trigger compares with the hysteresis level
TriggerOf_atHysteresis(r) ==
    IF r.cpu >= hysteresis THEN TriggerString("cpu", r.cpu)
    ELSE IF r.mem >= hysteresis THEN TriggerString("mem", r.mem)
    ELSE IF r.disk >= hysteresis THEN TriggerString("disk", r.disk)
    ELSE IF r.gpu >= hysteresis THEN TriggerString("gpu", r.gpu)
    ELSE NoTrigger

\* the trigger: first of cpu, mem, disk, gpu at or above the threshold
TriggerOf(r) ==
    IF r.cpu >= threshold THEN TriggerString("cpu", r.cpu)
    ELSE IF r.mem >= threshold THEN TriggerString("mem", r.mem)
    ELSE IF r.disk >= threshold THEN TriggerString("disk", r.disk)
    ELSE IF r.gpu >= threshold THEN TriggerString("gpu", r.gpu)
    ELSE NoTrigger

\* mutant: a metric equal to the hysteresis level lets the event close
BelowHysteresis_inclusive(r) ==
    r.cpu <= hysteresis /\ r.mem <= hysteresis /\ r.disk <= hysteresis /\ r.gpu <= hysteresis

\* the hysteresis check that closes the active event
BelowHysteresis(r) ==
    r.cpu < hysteresis /\ r.mem < hysteresis /\ r.disk < hysteresis /\ r.gpu < hysteresis

TopN == 20

\* variant: the two selections are appended and left as they are
dedup_none(procs) == procs

\* dedup: the first entry of every pid, in order
RECURSIVE dedup(_)
dedup(procs) ==
    IF procs = <<>> THEN <<>>
    ELSE LET front == dedup(SubSeq(procs, 1, Len(procs) - 1))
             p == procs[Len(procs)]
         IN  IF \E i \in DOMAIN front : front[i].pid = p.pid THEN front ELSE Append(front, p)

\* the top_processes of a snapshot: the top TopN by cpu, then the top TopN by
\* memory, without the pids already there
TopProcesses(procs) == dedup(sortByCPU(procs, TopN) \o sortByMem(SortDescBy(procs, "cpu"), TopN))

\* takeFullSnapshot on a reading and the process list read from /proc
takeFullSnapshot(r) ==
    [ts |-> now, cpu |-> r.cpu, mem |-> r.mem, disk |-> r.disk, gpu |-> r.gpu,
     procs |-> TopProcesses(r.procs)]

NewCrashEvent(id, snap, trigger) ==
    [id |-> id, started_at |-> snap.ts, ended_at |-> 0, trigger |-> trigger,
     verdict |-> "", severity |-> "", resolved |-> FALSE, snapshots |-> <<>>]

\* variant: every breach tick writes its own trigger into the active event
ActiveOrNew_retrigger(snap, trigger) ==
    IF activeEvent = Nil THEN NewCrashEvent(nextId, snap, trigger)
    ELSE [activeEvent[1] EXCEPT !.trigger = trigger]

\* `if r.activeEvent == nil { r.activeEvent = &CrashEvent{...} }`: the event the
\* snapshot goes to
ActiveOrNew(snap, trigger) ==
    IF activeEvent = Nil THEN NewCrashEvent(nextId, snap, trigger)
    ELSE activeEvent[1]

\* mutant: ended_at is not moved to the appended snapshot
RecordSnapshot_staleEnd(snap, trigger) ==
    [ActiveOrNew(snap, trigger) EXCEPT !.snapshots = Append(@, snap)]

\* the trigger branch: open an event if none is active, append the snapshot
RecordSnapshot(snap, trigger) ==
    [ActiveOrNew(snap, trigger) EXCEPT !.snapshots = Append(@, snap), !.ended_at = snap.ts]

\* the close branch: verdict, severity and resolved are set on the event
ResolveEvent(ev) ==
    [ev EXCEPT !.verdict = Analyze(ev.snapshots)[1],
               !.severity = Analyze(ev.snapshots)[2],
               !.resolved = TRUE]

Untracked == <<-1>>

\* history of the cpu readings, kept while every poll so far moved cpu alone
Track(r) ==
    IF hist # Untracked /\ r \in CpuOnlyReadings /\ Len(hist) < ScriptLen
    THEN Append(hist, r.cpu)
    ELSE Untracked

\* what the poll does between r.mu.Lock() and r.mu.Unlock()
LockedOps(r) ==
    {"isActive"} \cup
        (IF TriggerOf(r) # NoTrigger THEN {"append"}
         ELSE IF activeEvent # Nil /\ BelowHysteresis(r)
              THEN {"Analyze", "fetchProcessDetails", "SaveCrashEvent", "detach"}
              ELSE {})

\* variant: an event that could not be saved stays the active event
ClearActive_ifSaved == activeEvent' = IF dbOpen /\ ~commitFails THEN Nil ELSE activeEvent

\* `r.activeEvent = nil` after the save, whatever the save returned
ClearActive == activeEvent' = Nil

\* history: the event whose save returned an error, as the log line reports it
SaveError(event) ==
    IF dbOpen /\ ~commitFails THEN query ELSE [op |-> "save_error", event |-> event]

poll(r) ==
    LET trigger == TriggerOf(r)
        snap == takeFullSnapshot(r)
    IN  /\ gauges' = [cpu |-> r.cpu, mem |-> r.mem, disk |-> r.disk, gpu |-> r.gpu]
        /\ heartbeat' = IF dbOpen THEN <<snap>> ELSE heartbeat
        /\ underMu' = LockedOps(r)
        /\ IF trigger # NoTrigger
           THEN /\ activeEvent' = <<RecordSnapshot(snap, trigger)>>
                /\ nextId' = IF activeEvent = Nil THEN nextId + 1 ELSE nextId
                /\ eventCount' = IF activeEvent = Nil THEN eventCount + 1 ELSE eventCount
                /\ UNCHANGED <<crashEvents, crashMeta, query>>
           ELSE IF activeEvent # Nil /\ BelowHysteresis(r)
           THEN LET event == ResolveEvent(activeEvent[1])
                IN  /\ SaveCrashEvent(event, event.id, event.severity, event.trigger,
                                       event.started_at, event.resolved,
                                       Len(event.snapshots))
                    /\ query' = SaveError(event)
                    /\ ClearActive
                    /\ UNCHANGED <<nextId, eventCount>>
           ELSE UNCHANGED <<activeEvent, nextId, eventCount, crashEvents, crashMeta, query>>

\* one tick of the monitoring loop: poll, then the clock moves on to the next tick
PollTick(r) ==
    /\ process = "up"
    /\ \/ now < MaxTick
       \/ hist # Untracked /\ Len(hist) < ScriptLen /\ r \in CpuOnlyReadings
    /\ poll(r)
    /\ hist' = Track(r)
    /\ now' = now + 1
    /\ UNCHANGED <<pollers, tz, dbOpen, appStatus, attacks, lastExit, poolVars, anomVars, envVars>>

----------------------------------------------------------------------------
(* poll run by two goroutines: the monitoring loop and a caller of ForcePoll *)

ForceReadings == {Reading(c, 40, 40, 0, NormalProcs) : c \in {40, 88, 95}}

\* what a step of poll by goroutine g leaves alone
PollFrame == <<tz, appStatus, attacks, hist, poolVars, anomVars, commitFails, underMu>>

\* poll up to the unlock after `isActive := r.activeEvent != nil`: the metrics
\* are read, the snapshot is taken and written as the heartbeat, and isActive
\* is read under r.mu
pollObserve(g, r) ==
    /\ process = "up"
    /\ pollers[g].pc = "idle"
    /\ IF g = "ticker" THEN now < MaxTick ELSE pollers[g].calls < MaxForcePolls
    /\ pollers' = [pollers EXCEPT ![g] =
                      [pc |-> "branch", r |-> <<r>>, snap |-> <<takeFullSnapshot(r)>>,
                       isActive |-> activeEvent # Nil,
                       calls |-> IF g = "force" THEN @.calls + 1 ELSE 0]]
    /\ gauges' = [cpu |-> r.cpu, mem |-> r.mem, disk |-> r.disk, gpu |-> r.gpu]
    /\ heartbeat' = IF dbOpen THEN <<takeFullSnapshot(r)>> ELSE heartbeat
    /\ UNCHANGED <<now, nextId, activeEvent, eventCount, dbOpen, crashEvents, crashMeta,
                   lastExit, process, query>>
    /\ UNCHANGED PollFrame

\* poll returns; the monitoring loop then waits for the next tick
pollReturn(g) ==
    /\ pollers' = [pollers EXCEPT ![g].pc = "idle", ![g].r = <<>>, ![g].snap = <<>>,
                                  ![g].isActive = FALSE]
    /\ now' = IF g = "ticker" THEN now + 1 ELSE now
    /\ UNCHANGED <<gauges, heartbeat, dbOpen, lastExit, process>>
    /\ UNCHANGED PollFrame

\* `if trigger != ""`: under r.mu, open an event if none is active and append
pollTrigger(g) ==
    /\ process = "up"
    /\ pollers[g].pc = "branch"
    /\ TriggerOf(pollers[g].r[1]) # NoTrigger
    /\ activeEvent' = <<RecordSnapshot(pollers[g].snap[1], TriggerOf(pollers[g].r[1]))>>
    /\ nextId' = IF activeEvent = Nil THEN nextId + 1 ELSE nextId
    /\ eventCount' = IF activeEvent = Nil THEN eventCount + 1 ELSE eventCount
    /\ UNCHANGED <<crashEvents, crashMeta, query>>
    /\ pollReturn(g)

\* whether the goroutine is on its way into the close branch
InCloseBranch(g) ==
    /\ pollers[g].pc = "branch"
    /\ TriggerOf(pollers[g].r[1]) = NoTrigger
    /\ pollers[g].isActive
    /\ BelowHysteresis(pollers[g].r[1])

\* `else if isActive` below the hysteresis level, the event still there
pollClose(g) ==
    /\ process = "up"
    /\ InCloseBranch(g)
    /\ activeEvent # Nil
    /\ LET event == ResolveEvent(activeEvent[1])
       IN  /\ SaveCrashEvent(event, event.id, event.severity, event.trigger,
                              event.started_at, event.resolved, Len(event.snapshots))
           /\ query' = SaveError(event)
    /\ ClearActive
    /\ UNCHANGED <<nextId, eventCount>>
    /\ pollReturn(g)

\* the same branch after another poll has cleared r.activeEvent:
\* `event := r.activeEvent` is nil and Analyze(event.Snapshots) dereferences it;
\* the panic ends the process
pollCloseCleared(g) ==
    /\ process = "up"
    /\ InCloseBranch(g)
    /\ activeEvent = Nil
    /\ Dies("panic in poll")

\* no trigger and nothing to close
pollNothing(g) ==
    /\ process = "up"
    /\ pollers[g].pc = "branch"
    /\ TriggerOf(pollers[g].r[1]) = NoTrigger
    /\ ~(pollers[g].isActive /\ BelowHysteresis(pollers[g].r[1]))
    /\ UNCHANGED <<activeEvent, nextId, eventCount, crashEvents, crashMeta, query>>
    /\ pollReturn(g)

----------------------------------------------------------------------------
(* AnomalyDetector.  In this part the clock `now` counts seconds. *)

Threshold404 == 10
Threshold500 == 20
WindowSeconds == 60

Window == WindowSeconds

Flood404 == "404_flood"
Burst500 == "500_burst"
NoAnomaly == ""

NewIPStats == [Count404 |-> 0, Count500 |-> 0, LastSeen |-> 0]

\* the entry Check works on: the stored one, or a new one
StatOf(ip) ==
    [(IF ip \in DOMAIN Stats THEN Stats[ip] ELSE NewIPStats) EXCEPT !.LastSeen = now]

\* the counters after the call
Counted(ip, status) ==
    [StatOf(ip) EXCEPT
        !.Count404 = IF status = 404 THEN @ + 1 ELSE @,
        !.Count500 = IF status >= 500 /\ status < 600 THEN @ + 1 ELSE @]

\* what Check returns
CheckResult(ip, status) ==
    IF status = 404 /\ Counted(ip, status).Count404 > Threshold404 THEN Flood404
    ELSE IF status >= 500 /\ status < 600 /\ Counted(ip, status).Count500 > Threshold500
         THEN Burst500
         ELSE NoAnomaly

NoObs == [n |-> 0, run |-> 0, burst |-> 0]

ObsOf(ip) == IF ip \in DOMAIN obs THEN obs[ip] ELSE NoObs

Over == -1

\* the history of the ip's calls: how many there were (n), how many of them
\* there are while all of them are 404s sent at one instant (run, Over once
\* they are not), and how many 404s the ip sent at this instant (burst)
Observe(ip, status) ==
    [n |-> ObsOf(ip).n + 1,
     run |-> IF ObsOf(ip).run # Over /\ status = 404 THEN ObsOf(ip).run + 1 ELSE Over,
     burst |-> ObsOf(ip).burst + (IF status = 404 THEN 1 ELSE 0)]

\* the history once time has passed
Later(o) == [o EXCEPT !.run = IF @ = 0 THEN 0 ELSE Over, !.burst = 0]

\* AnomalyDetector.Check, under ad.mu
Check(ip, status) ==
    /\ Stats' = Put(Stats, ip, Counted(ip, status))
    /\ lastCall' = <<[ip |-> ip, status |-> status, result |-> CheckResult(ip, status)]>>
    /\ obs' = Put(obs, ip, Observe(ip, status))

\* what one pass of cleanupLoop leaves of an entry that is kept
Swept(stat) == [stat EXCEPT !.Count404 = 0, !.Count500 = 0]

Stale(stat) == now - stat.LastSeen > Window

\* AnomalyDetector.cleanupLoop: one tick of the ticker, under ad.mu
cleanupLoop ==
    /\ now = nextSweep
    /\ Stats' = [ip \in {i \in DOMAIN Stats : ~Stale(Stats[i])} |-> Swept(Stats[ip])]
    /\ nextSweep' = nextSweep + Window
    /\ UNCHANGED <<lastCall, obs>>
    /\ UNCHANGED <<now, tz, nextId, storeVars, recVars, poolVars, envVars, underMu, query>>

Ips == {"9.9.9.9", "8.8.8.8"}
Statuses == {404, 500}

\* a caller (a pool worker) runs Check
CallCheck(ip, status) ==
    /\ ObsOf("9.9.9.9").n + ObsOf("8.8.8.8").n < MaxChecks
    /\ ip = "8.8.8.8" => ObsOf(ip).n < MaxOtherChecks
    /\ Check(ip, status)
    /\ UNCHANGED nextSweep
    /\ UNCHANGED <<now, tz, nextId, storeVars, recVars, poolVars, envVars, underMu, query>>

\* time passes: one second (followed second by second for the first
\* MaxBurstSeconds after the ticker fired), or all the time until the ticker
\* fires next
ElapseChoices ==
    {nextSweep - now} \cup
        (IF now - (nextSweep - Window) < MaxBurstSeconds THEN {1} ELSE {})

Elapse(d) ==
    /\ d >= 1
    /\ now + d <= MaxSeconds
    /\ now' = now + d
    /\ obs' = [ip \in DOMAIN obs |-> Later(obs[ip])]
    /\ lastCall' = <<>>
    /\ UNCHANGED <<Stats, nextSweep>>
    /\ UNCHANGED <<tz, nextId, storeVars, recVars, poolVars, envVars, underMu, query>>

----------------------------------------------------------------------------
(* Worker pool *)

ModelWorkers == 2   \* worker goroutines started by Pool.Start
MaxJobs == 3        \* jobs submitted in one run

QueueCapacity == 1000
OneHundredMB == 104857600

WorkerIds == 1..ModelWorkers

Idle == [pc |-> "receive", job |-> <<>>]

\* what the parser makes of the lines that are fed in: a parse error, or the
\* fields of the entry
BenignLine ==
    [ok |-> TRUE, ip |-> "5.6.7.8", path |-> "/index.html", ua |-> "Mozilla/5.0",
     bytes |-> 512, status |-> 200]
SqliLine ==
    [ok |-> TRUE, ip |-> "1.2.3.4", path |-> "/index.php?id=1+UNION+SELECT+1",
     ua |-> "Mozilla/5.0", bytes |-> 512, status |-> 200]
ExfilLine ==
    [ok |-> TRUE, ip |-> "9.9.9.9", path |-> "/backup.tar", ua |-> "curl/8.0",
     bytes |-> OneHundredMB + 1, status |-> 200]
ScannerLine ==
    [ok |-> TRUE, ip |-> "7.7.7.7", path |-> "/", ua |-> "sqlmap/1.7", bytes |-> 512, status |-> 404]
BadLine ==
    [ok |-> FALSE, ip |-> "", path |-> "", ua |-> "", bytes |-> 0, status |-> 0]

Lines == {BenignLine, SqliLine, ExfilLine, ScannerLine, BadLine}

NotDetected == [detected |-> FALSE, type |-> "", severity |-> ""]

\* url.QueryUnescape on the paths of the model: "+" becomes a space, %XX the
\* byte it encodes, and a malformed escape ("%zz") is an error
QueryUnescape(path) ==
    CASE path = "/index.php?id=1+UNION+SELECT+1" ->
             [err |-> FALSE, s |-> "/index.php?id=1 UNION SELECT 1"]
      [] path = "/q?a=<script>&b=union%20select" ->
             [err |-> FALSE, s |-> "/q?a=<script>&b=union select"]
      [] path = "/a/../../etc/passwd?x=%3Cscript%3E" ->
             [err |-> FALSE, s |-> "/a/../../etc/passwd?x=<script>"]
      [] path = "/page?x=%zz" -> [err |-> TRUE, s |-> ""]
      [] OTHER -> [err |-> FALSE, s |-> path]

\* base64.StdEncoding.DecodeString on the paths of the model: only a string
\* of base64 characters, padded to a multiple of four, decodes
Base64Decode(path) ==
    CASE path = "dW5pb24gc2VsZWN0" -> [err |-> FALSE, s |-> "union select"]
      [] path = "PHNjcmlwdD4=" -> [err |-> FALSE, s |-> "<script>"]
      [] OTHER -> [err |-> TRUE, s |-> ""]

\* the strings of the model that sqliRegex, xssRegex, pathTravRegex and
\* scannerRegex match
SqliStrings ==
    {"/index.php?id=1 UNION SELECT 1", "/q?a=<script>&b=union select", "union select",
     "/q?id=1--<script>"}
XssStrings ==
    {"/q?a=<script>&b=union%20select", "/q?a=<script>&b=union select",
     "/a/../../etc/passwd?x=<script>", "/search?q=<script>alert(1)</script>",
     "/q?id=1--<script>", "<script>"}
PathTravStrings ==
    {"/a/../../etc/passwd?x=%3Cscript%3E", "/a/../../etc/passwd?x=<script>",
     "/../../etc/passwd"}
ScannerStrings == {"sqlmap/1.7", "Nikto/2.1.6", "Nmap Scripting Engine", "BurpSuite"}

\* the targets DetectAttack scans, in order: raw path, unescaped path (the raw
\* path when unescaping fails), and the base64 decoding when there is one
Targets(path) ==
    <<path, IF QueryUnescape(path).err THEN path ELSE QueryUnescape(path).s>>
      \o (IF ~Base64Decode(path).err /\ Base64Decode(path).s # ""
          THEN <<Base64Decode(path).s>> ELSE <<>>)

\* the three path rules on one target
MatchTarget(target) ==
    IF target \in SqliStrings
    THEN [detected |-> TRUE, type |-> "SQL Injection", severity |-> "critical"]
    ELSE IF target \in XssStrings
         THEN [detected |-> TRUE, type |-> "XSS", severity |-> "high"]
         ELSE IF target \in PathTravStrings
              THEN [detected |-> TRUE, type |-> "Path Traversal", severity |-> "high"]
              ELSE NotDetected

\* the loop over the targets: the first target with a match decides
RECURSIVE ScanTargets(_)
ScanTargets(targets) ==
    IF targets = <<>> THEN NotDetected
    ELSE IF MatchTarget(Head(targets)).detected THEN MatchTarget(Head(targets))
         ELSE ScanTargets(Tail(targets))

\* DetectAttack: the path rules over the targets, then the scanner rule on the
\* user agent
DetectAttack(path, userAgent) ==
    IF ScanTargets(Targets(path)).detected
    THEN ScanTargets(Targets(path))
    ELSE IF userAgent \in ScannerStrings
         THEN [detected |-> TRUE, type |-> "Scanner", severity |-> "medium"]
         ELSE NotDetected

\* a caller runs the analyzer on a path and a user agent
CallDetectAttack(path, userAgent) ==
    /\ query' = [op |-> "detect_attack", path |-> path, ua |-> userAgent,
                 result |-> DetectAttack(path, userAgent)]
    /\ UNCHANGED <<now, tz, nextId, storeVars, recVars, poolVars, anomVars, envVars, underMu>>

CheckDataExfiltration(bytesSent) ==
    IF bytesSent > OneHundredMB
    THEN [detected |-> TRUE, type |-> "Data Exfiltration (Large Download)",
          severity |-> "high"]
    ELSE NotDetected

\* the attack the loop body hands to ProcessWeb
AttackOf(entry) ==
    IF DetectAttack(entry.path, entry.ua).detected
    THEN DetectAttack(entry.path, entry.ua)
    ELSE CheckDataExfiltration(entry.bytes)

Inc(counters, labels) ==
    Put(counters, labels, IF labels \in DOMAIN counters THEN counters[labels] + 1 ELSE 1)

\* LogCollector.ProcessWeb: the attack counter (the request counters and the
\* anomaly counter are not part of the state of this module)
ProcessWeb(entry, service, attack) ==
    IF attack.detected
    THEN WebAttacks' = Inc(WebAttacks, [service |-> service, type |-> attack.type,
                                        severity |-> attack.severity,
                                        endpoint |-> entry.path, source_ip |-> entry.ip])
    ELSE UNCHANGED WebAttacks

\* lines of the auth log
SshAccepted == "sshd[1]: Accepted password for root from 1.2.3.4 port 22 ssh2"
SshFailed == "sshd[2]: Failed password for invalid user admin from 1.2.3.4 port 22 ssh2"
SshDisconnected == "sshd[1]: Disconnected from user root 1.2.3.4 port 22"
SshPreauthDisconnected ==
    "sshd[2]: Disconnected from authenticating user admin 1.2.3.4 port 22 [preauth]"
SshReceivedDisconnect ==
    "sshd[1]: Received disconnect from 1.2.3.4 port 22:11: disconnected by user"
CronLine == "CRON[7]: pam_unix(cron:session): session opened for user root"

SshLines ==
    {SshAccepted, SshFailed, SshDisconnected, SshPreauthDisconnected, SshReceivedDisconnect,
     CronLine}

\* sshAcceptedRegex.FindStringSubmatch on the lines of the model: the auth
\* method, the user and the ip, or nil
AcceptedMatch(line) ==
    IF line = SshAccepted THEN <<"password", "root", "1.2.3.4">> ELSE Nil

\* sshFailedRegex.FindStringSubmatch, likewise
FailedMatch(line) ==
    IF line = SshFailed THEN <<"password", "admin", "1.2.3.4">> ELSE Nil

\* strings.Contains(line, "sshd") && strings.Contains(line, "Disconnected from")
IsDisconnectLine(line) == line \in {SshDisconnected, SshPreauthDisconnected}

\* ParseSSHLine: <<entry>>, or nil for a line that is not relevant
ParseSSHLine(line) ==
    IF AcceptedMatch(line) # Nil
    THEN <<[Type |-> "SSHLoginSuccess", AuthMethod |-> AcceptedMatch(line)[1],
            User |-> AcceptedMatch(line)[2], IP |-> AcceptedMatch(line)[3]]>>
    ELSE IF FailedMatch(line) # Nil
    THEN <<[Type |-> "SSHLoginFailed", AuthMethod |-> FailedMatch(line)[1],
            User |-> FailedMatch(line)[2], IP |-> FailedMatch(line)[3]]>>
    ELSE IF IsDisconnectLine(line)
    THEN <<[Type |-> "SSHDisconnect", AuthMethod |-> "", User |-> "", IP |-> ""]>>
    ELSE Nil

\* LogCollector.ProcessSSH
ProcessSSH(entry) ==
    sshMetrics' =
        IF entry.Type = "SSHLoginSuccess"
        THEN [sshMetrics EXCEPT
                 !.SSHLoginAttempts = Inc(@, <<entry.User, entry.IP, "success", entry.AuthMethod>>),
                 !.SSHActiveSessions = @ + 1]
        ELSE IF entry.Type = "SSHLoginFailed"
        THEN [sshMetrics EXCEPT
                 !.SSHLoginAttempts = Inc(@, <<entry.User, entry.IP, "failed", entry.AuthMethod>>)]
        ELSE IF entry.Type = "SSHDisconnect"
        THEN [sshMetrics EXCEPT !.SSHDisconnects = @ + 1, !.SSHActiveSessions = @ - 1]
        ELSE sshMetrics

\* history: the types of the entries handed to ProcessSSH so far
FedSoFar == IF query.op = "process_ssh" THEN query.fed ELSE <<>>

\* startSSHMonitoring, the loop body on one line of the log
FeedSSHLine(line) ==
    /\ process = "up"
    /\ Len(FedSoFar) < MaxSshEvents
    /\ IF ParseSSHLine(line) # Nil
       THEN /\ ProcessSSH(ParseSSHLine(line)[1])
            /\ query' = [op |-> "process_ssh", fed |-> Append(FedSoFar, ParseSSHLine(line)[1].Type)]
       ELSE UNCHANGED <<sshMetrics, query>>
    /\ UNCHANGED <<JobQueue, workers, WebAttacks, submitted, taken, processed>>
    /\ UNCHANGED <<now, tz, nextId, storeVars, recVars, anomVars, envVars, underMu>>

NoId == 0

\* BoltStore.SaveAttack: an empty id is replaced by a generated one (a fresh
\* id, here the next of the counter), an empty timestamp by the local time of
\* the call; the key is timestamp_id
SaveAttack(entry) ==
    LET id == IF entry.id = NoId THEN nextId ELSE entry.id
        ts == IF entry.timestamp = EmptyStamp THEN FormatRFC3339(now, tz) ELSE entry.timestamp
    IN  IF dbOpen /\ ~commitFails
        THEN /\ attacks' = Put(attacks, <<ts, id>>, [entry EXCEPT !.id = id, !.timestamp = ts])
             /\ nextId' = IF entry.id = NoId THEN nextId + 1 ELSE nextId
        ELSE UNCHANGED <<attacks, nextId>>

\* byte order of two keys timestamp_id: the timestamp strings decide, then the
\* ids (hex strings of one length)
KeyBefore(a, b) ==
    \/ StampGreater(b[1], a[1])
    \/ a[1] = b[1] /\ a[2] < b[2]

FirstKey(S) == CHOOSE x \in S : \A y \in S \ {x} : KeyBefore(x, y)

\* Bucket.ForEach on an attacks bucket: the values in ascending key order
RECURSIVE AttacksAscending(_, _)
AttacksAscending(bucket, S) ==
    IF S = {} THEN <<>>
    ELSE <<bucket[FirstKey(S)]>> \o AttacksAscending(bucket, S \ {FirstKey(S)})

\* the filter chain of ListAttacks on one entry
PassesAttackFilters(ae, opts) ==
    /\ opts.severity = "" \/ Fold(ae.severity) = Fold(opts.severity)
    /\ opts.service = "" \/ Fold(ae.service) = Fold(opts.service)
    /\ opts.since = 0 \/ ~(ParseRFC3339(ae.timestamp) < opts.since)
    /\ opts.until = 0 \/ ~(ParseRFC3339(ae.timestamp) > opts.until)

\* the comparison ListAttacks hands to sort.Slice: on the timestamp strings
NewerAttack(a, b) == StampGreater(a.timestamp, b.timestamp)

\* sort.Slice with that comparison, as the insertion sort it runs on slices of
\* up to 12 entries: an entry moves ahead of the entries it compares greater
\* than and stays behind the entries with an equal timestamp. On a longer
\* slice whose timestamps are all equal the sort finds nothing out of order
\* and leaves the key order too.
RECURSIVE InsertAttack(_, _)
InsertAttack(s, x) ==
    IF s = <<>> THEN <<x>>
    ELSE IF NewerAttack(x, s[Len(s)])
         THEN Append(InsertAttack(Front(s), x), s[Len(s)])
         ELSE Append(s, x)

RECURSIVE SortAttacks(_)
SortAttacks(s) ==
    IF s = <<>> THEN <<>> ELSE InsertAttack(SortAttacks(Front(s)), s[Len(s)])

\* the scan of ListAttacks: undecodable values are skipped, then the filters
ScanAttacks(bucket, o) ==
    LET kept == SelectSeq(AttacksAscending(bucket, DOMAIN bucket),
                          LAMBDA v : /\ ~Undecodable(v)
                                     /\ PassesAttackFilters(Decoded(v, ZeroAttack), o))
    IN  [i \in DOMAIN kept |-> Decoded(kept[i], ZeroAttack)]

\* ListAttacks on an attacks bucket: the ListResult of the requested page
ListAttacksIn(bucket, opts) ==
    LET o == normalizeOpts(opts)
        all == SortAttacks(ScanAttacks(bucket, o))
    IN  [items |-> paginate(all, o), total |-> Len(all), page |-> o.page,
         page_size |-> o.page_size]

ListAttacks(opts) == ListAttacksIn(attacks, opts)

\* the entry a caller hands to SaveAttack: id and timestamp left empty
SqliAttack ==
    [id |-> NoId, timestamp |-> EmptyStamp, service |-> "web", type |-> "SQL Injection",
     severity |-> "critical", source_ip |-> "1.2.3.4",
     endpoint |-> "/index.php?id=1+UNION+SELECT+1"]

\* a caller saves an attack entry (the store's public API)
CallSaveAttack(entry) ==
    /\ dbOpen
    /\ Cardinality(DOMAIN attacks) < MaxAttacks
    /\ SaveAttack(entry)
    /\ query' = [op |-> "save_attack", id |-> IF entry.id = NoId THEN nextId ELSE entry.id]
    /\ UNCHANGED <<now, tz, dbOpen, appStatus, crashEvents, crashMeta, heartbeat, lastExit,
                   recVars, poolVars, anomVars, envVars, underMu>>

\* a caller lists attacks (the store's public API)
CallListAttacks(opts) ==
    /\ dbOpen
    /\ query' = [op |-> "list_attacks", opts |-> opts, result |-> ListAttacks(opts),
                 saved |-> IF query.op = "save_attack" THEN query.id ELSE NoId]
    /\ UNCHANGED <<now, tz, nextId, storeVars, recVars, poolVars, anomVars, envVars, underMu>>

\* a caller lists crash events (the store's public API)
CallListCrashEvents(opts) ==
    /\ dbOpen
    /\ query' = [op |-> "list_crash_events", opts |-> opts, items |-> ListCrashEvents(opts)]
    /\ UNCHANGED <<now, tz, nextId, storeVars, recVars, poolVars, anomVars, envVars, underMu>>

RECURSIVE SumOver(_, _)
SumOver(f, S) ==
    IF S = {} THEN 0 ELSE LET x == CHOOSE y \in S : TRUE IN f[x] + SumOver(f, S \ {x})

\* the seconds an event lasted, counted when both stamps parse
DurationOf(cs) ==
    IF ParseRFC3339(cs.started_at) # 0 /\ ParseRFC3339(cs.ended_at) # 0
    THEN ParseRFC3339(cs.ended_at) - ParseRFC3339(cs.started_at)
    ELSE 0

\* the loop over a count map that keeps the first key with the greatest count:
\* Go visits the keys in no fixed order, so every key with the greatest count
\* is a possible outcome; "" when the map is empty
TopOf(names, count) ==
    IF names = {} THEN {""}
    ELSE {n \in names : \A m \in names : count[m] <= count[n]}

\* GetStats on the two buckets: undecodable values are skipped in both scans.
\* avg_duration_sec is kept as numerator and denominator; the two top fields
\* are the sets of their possible values.
GetStatsIn(meta, bucket) ==
    LET ms == {k \in DOMAIN meta : ~Undecodable(meta[k])}
        cs == [k \in ms |-> Decoded(meta[k], ZeroSummary)]
        as == {k \in DOMAIN bucket : ~Undecodable(bucket[k])}
        ae == [k \in as |-> Decoded(bucket[k], ZeroAttack)]
        types == {ae[k].type : k \in as}
        svcs == {ae[k].service : k \in as} \ {""}
        typeCounts == [t \in types |-> Cardinality({k \in as : ae[k].type = t})]
        svcCounts == [v \in svcs |-> Cardinality({k \in as : ae[k].service = v})]
    IN  [total_crashes |-> Cardinality(ms),
         active_crashes |-> Cardinality({k \in ms : ~cs[k].resolved}),
         critical_count |-> Cardinality({k \in ms : Fold(cs[k].severity) = "critical"}),
         high_count |-> Cardinality({k \in ms : Fold(cs[k].severity) = "high"}),
         medium_count |-> Cardinality({k \in ms : Fold(cs[k].severity) = "medium"}),
         avg_duration_sec |-> IF ms = {} THEN <<0, 1>>
                              ELSE <<SumOver([k \in ms |-> DurationOf(cs[k])], ms),
                                     Cardinality(ms)>>,
         total_attacks |-> Cardinality(as),
         top_attack_type |-> TopOf(types, typeCounts),
         top_attacked_service |-> TopOf(svcs, svcCounts)]

\* a caller asks for the statistics (the store's public API)
CallGetStats ==
    /\ dbOpen
    /\ query' = [op |-> "get_stats", result |-> GetStatsIn(crashMeta, attacks)]
    /\ UNCHANGED <<now, tz, nextId, storeVars, recVars, poolVars, anomVars, envVars, underMu>>

\* the value under a key of crash_meta is damaged on disk
CorruptCrashMeta(k) ==
    /\ k \in DOMAIN crashMeta
    /\ crashMeta[k] # CorruptBlob
    /\ crashMeta' = Put(crashMeta, k, CorruptBlob)
    /\ UNCHANGED <<now, tz, nextId, dbOpen, appStatus, crashEvents, heartbeat, attacks, lastExit,
                   recVars, poolVars, anomVars, envVars, underMu, query>>

\* the value under a key of attacks is damaged on disk
CorruptAttack(k) ==
    /\ k \in DOMAIN attacks
    /\ attacks[k] # CorruptBlob
    /\ attacks' = Put(attacks, k, CorruptBlob)
    /\ UNCHANGED <<now, tz, nextId, dbOpen, appStatus, crashEvents, crashMeta, heartbeat,
                   lastExit, recVars, poolVars, anomVars, envVars, underMu, query>>

\* variant: the sweep also takes the entries stamped exactly at the cutoff
OldAttackKeys_inclusive(cutoff) ==
    {k \in DOMAIN attacks :
        /\ ParseRFC3339(attacks[k].timestamp) # 0
        /\ ParseRFC3339(attacks[k].timestamp) <= cutoff}

\* the keys DeleteOldAttacks collects: parsed timestamp non-zero and before cutoff
OldAttackKeys(cutoff) ==
    {k \in DOMAIN attacks :
        /\ ~Undecodable(attacks[k])
        /\ ParseRFC3339(attacks[k].timestamp) # 0
        /\ ParseRFC3339(attacks[k].timestamp) < cutoff}

\* DeleteOldAttacks: collect, then delete in the same transaction; returns the count
DeleteOldAttacks(olderThan) ==
    /\ dbOpen
    /\ attacks' = Delete(attacks, OldAttackKeys(now - olderThan))
    /\ query' = [op |-> "delete_old_attacks", cutoff |-> now - olderThan, before |-> attacks,
                 deleted |-> Cardinality(OldAttackKeys(now - olderThan))]
    /\ UNCHANGED <<now, tz, nextId, dbOpen, appStatus, crashEvents, crashMeta, heartbeat,
                   lastExit, recVars, poolVars, anomVars, envVars, underMu>>

\* a caller saves an entry it stamped itself, age days in the past
CallSaveAttackAged(age) ==
    /\ dbOpen
    /\ nextId <= MaxIds
    /\ SaveAttack([SqliAttack EXCEPT !.timestamp = FormatRFC3339(now - age, tz)])
    /\ query' = [op |-> "save_attack", id |-> nextId]
    /\ UNCHANGED <<now, tz, dbOpen, appStatus, crashEvents, crashMeta, heartbeat, lastExit,
                   recVars, poolVars, anomVars, envVars, underMu>>

\* the clock moves on between calls of the attack API
AttackTick ==
    /\ now < MaxAttackClock
    /\ Tick

\* variant: a channel that never fills up
Full_never(q) == FALSE

\* the buffered channel holds QueueCapacity jobs; a send on a full channel blocks
Full(q) == Len(q) >= QueueCapacity

\* Pool.Submit: a blocking send on the buffered channel; limit bounds the
\* number of jobs of the run
SubmitUpTo(line, limit) ==
    /\ process = "up"
    /\ Len(submitted) < limit
    /\ ~Full(JobQueue)
    /\ JobQueue' = Append(JobQueue, [n |-> Len(submitted) + 1, service |-> "web",
                                     line |-> line])
    /\ submitted' = Append(submitted, [n |-> Len(submitted) + 1, service |-> "web",
                                       line |-> line])
    /\ taken' = Append(taken, 0)
    /\ UNCHANGED <<workers, WebAttacks, sshMetrics, processed>>
    /\ UNCHANGED <<now, tz, nextId, storeVars, recVars, anomVars, envVars, underMu, query>>

Submit(line) == SubmitUpTo(line, MaxJobs)

\* a tailer submits lines while no worker takes any; the run is long enough
\* to fill the channel
SubmitBurst == SubmitUpTo(BenignLine, QueueCapacity + 2)

\* variant: a receive that leaves the job in the channel
Dequeue_peek(q) == q

\* what a receive leaves in the channel
Dequeue(q) == Tail(q)

\* Pool.worker, `for job := range p.JobQueue`: the receive
Receive(w) ==
    /\ process = "up"
    /\ workers[w].pc = "receive"
    /\ JobQueue # <<>>
    /\ workers' = [workers EXCEPT ![w] = [pc |-> "body", job |-> <<Head(JobQueue)>>]]
    /\ JobQueue' = Dequeue(JobQueue)
    /\ taken' = [taken EXCEPT ![Head(JobQueue).n] = @ + 1]
    /\ UNCHANGED <<WebAttacks, sshMetrics, submitted, processed>>
    /\ UNCHANGED <<now, tz, nextId, storeVars, recVars, anomVars, envVars, underMu, query>>

\* Pool.worker: the loop body on the received job; a parse error skips the rest
Body(w) ==
    /\ process = "up"
    /\ workers[w].pc = "body"
    /\ LET job == workers[w].job[1]
       IN  /\ IF job.line.ok
              THEN /\ Check(job.line.ip, job.line.status)
                   /\ ProcessWeb(job.line, job.service, AttackOf(job.line))
              ELSE UNCHANGED <<Stats, lastCall, obs, WebAttacks>>
           /\ processed' = processed \cup {job.n}
    /\ workers' = [workers EXCEPT ![w] = Idle]
    /\ UNCHANGED <<JobQueue, sshMetrics, submitted, taken, nextSweep>>
    /\ UNCHANGED <<now, tz, nextId, storeVars, recVars, envVars, underMu, query>>

----------------------------------------------------------------------------
(* Faults and signals *)

\* the store stops or resumes committing write transactions
StorageFault ==
    /\ process = "up"
    /\ commitFails' = ~commitFails
    /\ UNCHANGED <<now, tz, nextId, storeVars, recVars, poolVars, anomVars, process, underMu, query>>

\* a panic inside poll: the monitoring goroutine has no recover, so the panic
\* ends the process
PollPanics ==
    /\ process = "up"
    /\ now < MaxTick
    /\ Dies("panic in poll")

\* a panic inside the loop body of a worker: no recover either
BodyPanics(w) ==
    /\ process = "up"
    /\ workers[w].pc = "body"
    /\ Dies("panic in worker")

\* SIGINT or SIGTERM: main installs no handler, the runtime ends the process
ShutdownSignal ==
    /\ process = "up"
    /\ dbOpen
    /\ Dies("signal")

----------------------------------------------------------------------------
(* Specifications *)

TzOffsets == {0, 2}

ZeroGauges == [cpu |-> 0, mem |-> 0, disk |-> 0, gpu |-> 0]

\* a fresh database file, no process running
Init ==
    /\ now = 1
    /\ tz \in TzOffsets
    /\ nextId = 1
    /\ activeEvent = Nil
    /\ gauges = ZeroGauges
    /\ eventCount = 0
    /\ dbOpen = FALSE
    /\ appStatus = ""
    /\ crashEvents = EmptyBucket
    /\ crashMeta = EmptyBucket
    /\ heartbeat = Nil
    /\ lastExit = "fresh"
    /\ hist = Untracked
    /\ attacks = EmptyBucket
    /\ JobQueue = <<>>
    /\ workers = [w \in WorkerIds |-> Idle]
    /\ WebAttacks = EmptyBucket
    /\ sshMetrics = NoSshMetrics
    /\ submitted = <<>>
    /\ taken = <<>>
    /\ processed = {}
    /\ Stats = EmptyBucket
    /\ nextSweep = 1 + Window
    /\ lastCall = <<>>
    /\ obs = EmptyBucket
    /\ process = "down"
    /\ commitFails = FALSE
    /\ underMu = {}
    /\ query = NoQuery
    /\ pollers = [g \in Goroutines |-> NotPolling]

\* main has opened the fresh store and started the recorder
InitRec ==
    /\ now = 1
    /\ tz \in TzOffsets
    /\ nextId = 1
    /\ activeEvent = Nil
    /\ gauges = ZeroGauges
    /\ eventCount = 0
    /\ dbOpen = TRUE
    /\ appStatus = "running"
    /\ crashEvents = EmptyBucket
    /\ crashMeta = EmptyBucket
    /\ heartbeat = Nil
    /\ lastExit = "fresh"
    /\ hist = <<>>
    /\ attacks = EmptyBucket
    /\ JobQueue = <<>>
    /\ workers = [w \in WorkerIds |-> Idle]
    /\ WebAttacks = EmptyBucket
    /\ sshMetrics = NoSshMetrics
    /\ submitted = <<>>
    /\ taken = <<>>
    /\ processed = {}
    /\ Stats = EmptyBucket
    /\ nextSweep = 1 + Window
    /\ lastCall = <<>>
    /\ obs = EmptyBucket
    /\ process = "up"
    /\ commitFails = FALSE
    /\ underMu = {}
    /\ query = NoQuery
    /\ pollers = [g \in Goroutines |-> NotPolling]

\* the severity and trigger of the events saved in the store-only specification
SaveArgs == {<<"high", TriggerString("cpu", 95)>>, <<"critical", TriggerString("mem", 95)>>}
Ttls == {1, 2}

NextStore ==
    \/ NewBoltStore
    \/ Close
    \/ Terminate
    \/ Tick
    \/ \E a \in SaveArgs : CallSaveCrashEvent(a[1], a[2], now)
    \/ \E ttl \in Ttls : DeleteOldCrashEvents(ttl)

NextRec == \E r \in Readings : PollTick(r)

NextPool ==
    \/ \E line \in Lines : Submit(line)
    \/ \E w \in WorkerIds : Receive(w)
    \/ \E w \in WorkerIds : Body(w)

NextAnomaly ==
    \/ \E ip \in Ips, status \in Statuses : CallCheck(ip, status)
    \/ cleanupLoop
    \/ \E d \in ElapseChoices : Elapse(d)

Next ==
    \/ NextStore \/ NextRec \/ NextPool \/ NextAnomaly \/ SubmitBurst
    \/ StorageFault \/ PollPanics \/ ShutdownSignal
    \/ \E w \in WorkerIds : BodyPanics(w)

Spec == Init /\ [][Next]_vars

SpecPool == InitRec /\ [][NextPool]_vars

WorkerStep == \E w \in WorkerIds : Receive(w) \/ Body(w)

\* worker goroutines that can run are eventually scheduled
\* the lines of the fairness specification: a benign one, an attack, and one
\* that does not parse
FairLines == {BenignLine, SqliLine, BadLine}

NextPoolFair ==
    \/ \E line \in FairLines : Submit(line)
    \/ \E w \in WorkerIds : Receive(w)
    \/ \E w \in WorkerIds : Body(w)

SpecPoolFair == InitRec /\ [][NextPoolFair]_vars /\ WF_vars(WorkerStep)

SpecStore == Init /\ [][NextStore]_vars

SpecRec == InitRec /\ [][NextRec]_vars

\* `all` after the loop over the listed summaries: the snapshots of every
\* listed event that GetCrashEvent finds and that decodes, in listing order
RECURSIVE StoredSnapshots(_)
StoredSnapshots(items) ==
    IF items = <<>> THEN <<>>
    ELSE LET id == items[1].id
             rest == StoredSnapshots(SubSeq(items, 2, Len(items)))
         IN  IF id \in DOMAIN crashEvents /\ ~Undecodable(crashEvents[id])
             THEN crashEvents[id].snapshots \o rest
             ELSE rest

GetSnapshotsPageSize == 10

\* `all` of GetSnapshots: the snapshots of the active event, then those of the
\* events on the first page of ListCrashEvents
AllSnapshots ==
    (IF activeEvent # Nil THEN activeEvent[1].snapshots ELSE <<>>)
        \o (IF dbOpen
            THEN StoredSnapshots(ListCrashEvents([DefaultOpts EXCEPT !.page = 1,
                                                    !.page_size = GetSnapshotsPageSize]))
            ELSE <<>>)

\* GetSnapshots(n): the last n entries of `all`, all of them when n is not in
\* 1..len(all)
GetSnapshots(n) ==
    LET all == AllSnapshots
        m == IF n <= 0 \/ n > Len(all) THEN Len(all) ELSE n
    IN  SubSeq(all, Len(all) - m + 1, Len(all))

\* the forensic page asks for snapshots
CallGetSnapshots(n) ==
    /\ process = "up"
    /\ query' = [op |-> "get_snapshots", n |-> n, all |-> AllSnapshots,
                 result |-> GetSnapshots(n)]
    /\ UNCHANGED <<now, tz, nextId, storeVars, recVars, poolVars, anomVars, envVars, underMu>>

\* the monitoring loop polls and the forensic page asks
NextSnapshots ==
    \/ \E r \in ForceReadings : PollTick(r)
    \/ \E n \in 0..MaxAsked : CallGetSnapshots(n)

SpecSnapshots == InitRec /\ [][NextSnapshots]_vars

\* variant: GetEvent reads the store only
ActiveMatches_never(id) == FALSE

\* `r.activeEvent != nil && r.activeEvent.ID == id`, under r.mu
ActiveMatches(id) == activeEvent # Nil /\ activeEvent[1].id = id

\* GetEvent up to the unlock: the active event if it is the one asked for
getEventLocked(id) ==
    /\ process = "up"
    /\ IF query.op = "get_event" THEN query.pc = "done" ELSE TRUE
    /\ id < nextId
    /\ query' = IF ActiveMatches(id)
                THEN [op |-> "get_event", id |-> id, pc |-> "done", from |-> "active",
                      ev |-> <<activeEvent[1]>>]
                ELSE [op |-> "get_event", id |-> id, pc |-> "store", from |-> "", ev |-> Nil]
    /\ UNCHANGED <<now, tz, nextId, storeVars, recVars, poolVars, anomVars, envVars, underMu>>

\* GetEvent after the unlock: store.GetCrashEvent(id), nil when it is not there
getEventFromStore ==
    /\ process = "up"
    /\ query.op = "get_event" /\ query.pc = "store"
    /\ query' = IF dbOpen /\ query.id \in DOMAIN crashEvents
                     /\ ~Undecodable(crashEvents[query.id])
                THEN [query EXCEPT !.pc = "done", !.from = "store",
                                   !.ev = <<crashEvents[query.id]>>]
                ELSE [query EXCEPT !.pc = "done", !.from = "", !.ev = Nil]
    /\ UNCHANGED <<now, tz, nextId, storeVars, recVars, poolVars, anomVars, envVars, underMu>>

\* the monitoring loop polls while an API handler runs GetEvent
NextGetEvent ==
    \/ \E r \in ForceReadings : pollObserve("ticker", r)
    \/ pollTrigger("ticker")
    \/ pollClose("ticker")
    \/ pollNothing("ticker")
    \/ \E id \in 1..MaxTick : getEventLocked(id)
    \/ getEventFromStore

SpecGetEvent == InitRec /\ [][NextGetEvent]_vars

NextForcePoll ==
    \E g \in Goroutines :
        \/ \E r \in ForceReadings : pollObserve(g, r)
        \/ pollTrigger(g)
        \/ pollClose(g)
        \/ pollCloseCleared(g)
        \/ pollNothing(g)

SpecForcePoll == InitRec /\ [][NextForcePoll]_vars

\* the tailer of the auth log
NextSsh == \E line \in SshLines : FeedSSHLine(line)

SpecSsh == InitRec /\ [][NextSsh]_vars

\* the recorder over the combinations of breached metrics
NextTrigger == \E r \in TriggerReadings : PollTick(r)

SpecTrigger == InitRec /\ [][NextTrigger]_vars

SpecAnomaly == InitRec /\ [][NextAnomaly]_vars

\* the statuses around the two counted ranges, and an ordinary one
BoundaryStatuses == {200, 404, 499, 500, 599, 600}

NextStatus ==
    \E ip \in Ips, status \in BoundaryStatuses :
        ObsOf(ip).n < MaxStatusChecks /\ CallCheck(ip, status)

SpecStatus == InitRec /\ [][NextStatus]_vars

PollStep == \E r \in Readings : PollTick(r)

NextRecEnv == PollStep \/ StorageFault \/ PollPanics

SpecRecEnv == InitRec /\ [][NextRecEnv]_vars

NextPoolPanic == NextPool \/ \E w \in WorkerIds : BodyPanics(w)

SpecPoolPanic == InitRec /\ [][NextPoolPanic]_vars

NextShutdown == NextPool \/ ShutdownSignal \/ NewBoltStore

SpecShutdown == InitRec /\ [][NextShutdown]_vars

\* the jobs a tailer has already submitted when the run starts
Backlog ==
    [i \in 1..(QueueCapacity - Headroom) |-> [n |-> i, service |-> "web", line |-> BenignLine]]

\* the pool after that many submits, before any worker has taken a job
InitQueue ==
    /\ now = 1
    /\ tz \in TzOffsets
    /\ nextId = 1
    /\ activeEvent = Nil
    /\ gauges = ZeroGauges
    /\ eventCount = 0
    /\ dbOpen = TRUE
    /\ appStatus = "running"
    /\ crashEvents = EmptyBucket
    /\ crashMeta = EmptyBucket
    /\ heartbeat = Nil
    /\ lastExit = "fresh"
    /\ hist = <<>>
    /\ attacks = EmptyBucket
    /\ JobQueue = Backlog
    /\ workers = [w \in WorkerIds |-> Idle]
    /\ WebAttacks = EmptyBucket
    /\ sshMetrics = NoSshMetrics
    /\ submitted = Backlog
    /\ taken = [i \in DOMAIN Backlog |-> 0]
    /\ processed = {}
    /\ Stats = EmptyBucket
    /\ nextSweep = 1 + Window
    /\ lastCall = <<>>
    /\ obs = EmptyBucket
    /\ process = "up"
    /\ commitFails = FALSE
    /\ underMu = {}
    /\ query = NoQuery
    /\ pollers = [g \in Goroutines |-> NotPolling]

SpecQueue == InitQueue /\ [][SubmitBurst]_vars

\* the options list queries are called with, on an empty store: every page
\* size up to MaxReqPageSize, and ten times the largest page size
RequestedOpts ==
    [page : -1..MaxReqPage, page_size : (-1..MaxReqPageSize) \cup {10 * MaxPageSize},
     severity : {""},
     service : {""}, since : {0}, until : {0}]

NextOpts == \E opts \in RequestedOpts : CallListAttacks(opts)

SpecOpts == InitRec /\ [][NextOpts]_vars

\* list_attacks(page=1, size=20), no filters
FirstPageOpts ==
    [page |-> 1, page_size |-> DefaultPageSize, severity |-> "", service |-> "",
     since |-> 0, until |-> 0]

NextAttacks ==
    \/ CallSaveAttack(SqliAttack)
    \/ CallListAttacks(FirstPageOpts)
    \/ AttackTick

SpecAttacks == InitRec /\ [][NextAttacks]_vars

\* the retention sweep, with the clock in days: the store is opened on day
\* PruneDay and holds entries of the ages AttackAges
PruneDay == 32
AttackAges == {31, 29, 1}
AttackTtls == {30, 29}

InitPrune ==
    /\ now = PruneDay
    /\ tz \in TzOffsets
    /\ nextId = 1
    /\ activeEvent = Nil
    /\ gauges = ZeroGauges
    /\ eventCount = 0
    /\ dbOpen = TRUE
    /\ appStatus = "running"
    /\ crashEvents = EmptyBucket
    /\ crashMeta = EmptyBucket
    /\ heartbeat = Nil
    /\ lastExit = "fresh"
    /\ hist = <<>>
    /\ attacks = EmptyBucket
    /\ JobQueue = <<>>
    /\ workers = [w \in WorkerIds |-> Idle]
    /\ WebAttacks = EmptyBucket
    /\ sshMetrics = NoSshMetrics
    /\ submitted = <<>>
    /\ taken = <<>>
    /\ processed = {}
    /\ Stats = EmptyBucket
    /\ nextSweep = PruneDay + Window
    /\ lastCall = <<>>
    /\ obs = EmptyBucket
    /\ process = "up"
    /\ commitFails = FALSE
    /\ underMu = {}
    /\ query = NoQuery
    /\ pollers = [g \in Goroutines |-> NotPolling]

NextPrune ==
    \/ \E age \in AttackAges : CallSaveAttackAged(age)
    \/ \E ttl \in AttackTtls : DeleteOldAttacks(ttl)
    \/ CallListAttacks(FirstPageOpts)

SpecPrune == InitPrune /\ [][NextPrune]_vars

\* forensic analysis and the snapshot on their own.  A process list of n
\* processes, pid i using i units of cpu; memory grows with the pid or against it
ProcList(n, shape) ==
    [i \in 1..n |-> [pid |-> i, cpu |-> i, rss |-> IF shape = "same" THEN i ELSE n + 1 - i,
                     oom |-> 100]]

ProcLists == {ProcList(n, shape) : n \in 0..MaxProcs, shape \in {"same", "opposite"}}

\* the process lists of the snapshots handed to generateVerdict: none, one
\* process at and just over the oom limit, and two processes of which the
\* second holds more memory
VerdictProcs ==
    {NoProcs,
     <<[pid |-> 1, cpu |-> 10, rss |-> 100, oom |-> 800]>>,
     <<[pid |-> 1, cpu |-> 10, rss |-> 100, oom |-> 801]>>,
     <<[pid |-> 1, cpu |-> 50, rss |-> 100, oom |-> 900],
       [pid |-> 2, cpu |-> 10, rss |-> 200, oom |-> 800]>>,
     <<[pid |-> 1, cpu |-> 50, rss |-> 100, oom |-> 100],
       [pid |-> 2, cpu |-> 10, rss |-> 200, oom |-> 801]>>}

VerdictSnapshots ==
    {[ts |-> 1, cpu |-> c, mem |-> m, disk |-> 40, gpu |-> g, procs |-> p] :
        c \in {40, 95}, m \in {80, 81}, g \in {0, 96}, p \in VerdictProcs}

\* the analysis runs generateVerdict on the last snapshot of an event
CallGenerateVerdict(last, spikeDetected) ==
    /\ query' = [op |-> "generate_verdict", last |-> last, spike |-> spikeDetected,
                 result |-> generateVerdict(last, spikeDetected)]
    /\ UNCHANGED <<now, tz, nextId, storeVars, recVars, poolVars, anomVars, envVars, underMu>>

\* a poll over the threshold takes a snapshot of the processes /proc lists
CallTakeFullSnapshot(procs) ==
    /\ query' = [op |-> "take_full_snapshot", procs |-> procs,
                 snap |-> takeFullSnapshot(Reading(95, 40, 40, 0, procs))]
    /\ UNCHANGED <<now, tz, nextId, storeVars, recVars, poolVars, anomVars, envVars, underMu>>

\* the snapshots of an event handed to Analyze: up to MaxSnapshots of them, the
\* last three going from memory 85 and cpu 40 to the levels of the last one
TrendSnap(t, c, m) == [ts |-> t, cpu |-> c, mem |-> m, disk |-> 40, gpu |-> 0, procs |-> NormalProcs]

TrendSnapshots ==
    {[i \in 1..n |-> IF i = n THEN TrendSnap(i, c, m)
                     ELSE IF i + 3 > n THEN TrendSnap(i, 40, 85)
                     ELSE TrendSnap(i, 20, 60)] :
        n \in 1..MaxSnapshots, c \in {40, 50, 51}, m \in {70, 85, 90, 91}}

\* the close branch of poll, or the forensics endpoint, analyses an event
CallAnalyze(snapshots) ==
    /\ query' = [op |-> "analyze", snapshots |-> snapshots, spike |-> SpikeDetected(snapshots),
                 result |-> Analyze(snapshots)]
    /\ UNCHANGED <<now, tz, nextId, storeVars, recVars, poolVars, anomVars, envVars, underMu>>

NextForensics ==
    \/ \E last \in VerdictSnapshots, spike \in BOOLEAN : CallGenerateVerdict(last, spike)
    \/ \E snapshots \in TrendSnapshots : CallAnalyze(snapshots)
    \/ \E procs \in ProcLists : CallTakeFullSnapshot(procs)

SpecForensics == InitRec /\ [][NextForensics]_vars

\* the process sentinel on its own.  A name is the sequence of its characters.
LowerLetters == <<"a", "b", "c", "d", "e", "f", "g", "h", "i", "j", "k", "l", "m", "n", "o", "p", "q", "r", "s", "t", "u", "v", "w", "x", "y", "z">>
UpperLetters == <<"A", "B", "C", "D", "E", "F", "G", "H", "I", "J", "K", "L", "M", "N", "O", "P", "Q", "R", "S", "T", "U", "V", "W", "X", "Y", "Z">>

ToLowerChar(c) ==
    IF \E i \in DOMAIN UpperLetters : UpperLetters[i] = c
    THEN LowerLetters[CHOOSE i \in DOMAIN UpperLetters : UpperLetters[i] = c]
    ELSE c

ToUpperChar(c) ==
    IF \E i \in DOMAIN LowerLetters : LowerLetters[i] = c
    THEN UpperLetters[CHOOSE i \in DOMAIN LowerLetters : LowerLetters[i] = c]
    ELSE c

\* strings.ToLower
ToLower(name) == [i \in DOMAIN name |-> ToLowerChar(name[i])]

\* NewProcessSentinel: the default blacklist
Blacklist ==
    <<<<"n", "c">>,
      <<"n", "m", "a", "p">>,
      <<"h", "y", "d", "r", "a">>,
      <<"j", "o", "h", "n">>,
      <<"x", "m", "r", "i", "g">>>>

\* strings.Contains
Contains(name, term) ==
    \E k \in 0..(Len(name) - Len(term)) : SubSeq(name, k + 1, k + Len(term)) = term

\* variant: a term anywhere in the name matches
Matches_contains(lowerName, bad) == Contains(lowerName, bad)

\* the comparison of isBlacklisted
Matches(lowerName, bad) == lowerName = bad

NoTerm == <<>>

\* isBlacklisted: the first term of the blacklist that matches, and whether
\* there is one
isBlacklisted(procName) ==
    LET hits == {i \in DOMAIN Blacklist : Matches(ToLower(procName), Blacklist[i])}
    IN  IF hits = {} THEN <<NoTerm, FALSE>> ELSE <<Blacklist[Min(hits)], TRUE>>

\* the process names of the host, in lower case
BaseNames ==
    {<<"n", "c">>,
     <<"n", "m", "a", "p">>,
     <<"h", "y", "d", "r", "a">>,
     <<"j", "o", "h", "n">>,
     <<"x", "m", "r", "i", "g">>,
     <<"s", "y", "s", "t", "e", "m", "d">>,
     <<"r", "u", "n", "c">>,
     <<"n", "c", "a", "t">>,
     <<"n", "c", "-", "o", "p", "e", "n", "b", "s", "d">>,
     <<"c", "o", "n", "t", "a", "i", "n", "e", "r", "d", "-", "s", "h", "i", "m", "-", "r", "u", "n", "c", "-", "v", "2">>}

\* each of them as it is, with one letter in upper case, and all in upper case
ProcNames ==
    UNION {{n, [i \in DOMAIN n |-> ToUpperChar(n[i])]}
             \cup {[i \in DOMAIN n |-> IF i = k THEN ToUpperChar(n[i]) ELSE n[i]] :
                      k \in 1..(IF Len(n) < MaxCased THEN Len(n) ELSE MaxCased)} :
           n \in BaseNames}

\* scan asks for every process it finds
CallIsBlacklisted(procName) ==
    /\ query' = [op |-> "is_blacklisted", name |-> procName,
                 term |-> isBlacklisted(procName)[1], found |-> isBlacklisted(procName)[2]]
    /\ UNCHANGED <<now, tz, nextId, storeVars, recVars, poolVars, anomVars, envVars, underMu>>

NextSentinel == \E name \in ProcNames : CallIsBlacklisted(name)

SpecSentinel == InitRec /\ [][NextSentinel]_vars

\* the analyzer on its own
Paths ==
    {"/index.html", "/index.php?id=1+UNION+SELECT+1", "/q?a=<script>&b=union%20select",
     "/a/../../etc/passwd?x=%3Cscript%3E", "/search?q=<script>alert(1)</script>",
     "/../../etc/passwd", "dW5pb24gc2VsZWN0", "PHNjcmlwdD4=", "/page?x=%zz",
     "/q?id=1--<script>"}
UserAgents ==
    {"Mozilla/5.0", "curl/8.0", "sqlmap/1.7", "Nikto/2.1.6", "Nmap Scripting Engine", "BurpSuite"}

NextAnalyzer == \E path \in Paths, ua \in UserAgents : CallDetectAttack(path, ua)

SpecAnalyzer == InitRec /\ [][NextAnalyzer]_vars

\* the store with damaged records
NextCorrupt ==
    \/ \E a \in SaveArgs : nextId <= MaxRecords /\ CallSaveCrashEvent(a[1], a[2], now)
    \/ nextId <= MaxRecords /\ CallSaveAttackAged(0)
    \/ AttackTick
    \/ \E k \in DOMAIN crashMeta : CorruptCrashMeta(k)
    \/ \E k \in DOMAIN attacks : CorruptAttack(k)
    \/ CallListCrashEvents(DefaultOpts)
    \/ CallListAttacks(FirstPageOpts)
    \/ CallGetStats

SpecCorrupt == InitRec /\ [][NextCorrupt]_vars

----------------------------------------------------------------------------
(* Properties of ResourceRecorder.poll, checked under SpecRec *)

Active == activeEvent # Nil

AnyAtThreshold(g) ==
    g.cpu >= DefaultThreshold \/ g.mem >= DefaultThreshold
      \/ g.disk >= DefaultThreshold \/ g.gpu >= DefaultThreshold

AllBelowBand(g) ==
    /\ g.cpu < DefaultThreshold - HysteresisGap
    /\ g.mem < DefaultThreshold - HysteresisGap
    /\ g.disk < DefaultThreshold - HysteresisGap
    /\ g.gpu < DefaultThreshold - HysteresisGap

HysteresisScript == <<95, 88, 86, 84>>

\* the run cpu = 95, 88, 86, 84: one event, opened by the first poll (tick 1),
\* still open after 88 and 86, closed and stored by the poll that read 84
OneEventOverScript ==
    /\ hist \in {<<95>>, <<95, 88>>, <<95, 88, 86>>} =>
          /\ Active
          /\ activeEvent[1].started_at = 1
          /\ eventCount = 1
          /\ DOMAIN crashEvents = {}
    /\ hist = HysteresisScript =>
          /\ ~Active
          /\ eventCount = 1
          /\ Cardinality(DOMAIN crashEvents) = 1
          /\ \A k \in DOMAIN crashEvents :
                crashEvents[k].started_at = 1 /\ crashEvents[k].resolved

\* C1: an active crash event is closed only on a tick where cpu, mem, disk and
\* gpu are all strictly below threshold-5, no second event is opened while one
\* is active, and the polls cpu = 95, 88, 86, 84 produce exactly one event,
\* opened at 95 and closed at 84.
C1_ClosedOnlyBelowHysteresis ==
    [][ /\ (Active /\ ~Active') => AllBelowBand(gauges')
        /\ (Active /\ Active') =>
              (activeEvent'[1].id = activeEvent[1].id /\ eventCount' = eventCount)
        /\ OneEventOverScript' ]_vars

C1_Witness ==
    /\ hist = HysteresisScript
    /\ ~Active
    /\ Cardinality(DOMAIN crashEvents) = 1

\* C2 as stated: while an event is active every tick appends one snapshot to it,
\* and the polls cpu = 95, 88, 86, 84 leave a resolved event with three snapshots.
C2_EveryActiveTickAppends ==
    [][ /\ (Active /\ Active') =>
              Len(activeEvent'[1].snapshots) = Len(activeEvent[1].snapshots) + 1
        /\ hist' = HysteresisScript =>
              \A k \in DOMAIN crashEvents' : Len(crashEvents'[k].snapshots) = 3 ]_vars

\* C2 amended: while an event is active, a tick appends one snapshot to it
\* exactly when some metric is at or above the threshold on that tick; a tick
\* with no metric at the threshold that does not close the event leaves the
\* event unchanged; the polls cpu = 95, 88, 86, 84 leave a resolved event with
\* one snapshot.
C2_AppendsOnlyAtThreshold ==
    [][ /\ (Active /\ Active' /\ AnyAtThreshold(gauges')) =>
              /\ Len(activeEvent'[1].snapshots) = Len(activeEvent[1].snapshots) + 1
              /\ activeEvent'[1].snapshots[Len(activeEvent'[1].snapshots)].ts = now
        /\ (Active /\ Active' /\ ~AnyAtThreshold(gauges')) => activeEvent' = activeEvent
        /\ hist' = HysteresisScript =>
              /\ DOMAIN crashEvents' # {}
              /\ \A k \in DOMAIN crashEvents' :
                    Len(crashEvents'[k].snapshots) = 1 /\ crashEvents'[k].resolved ]_vars

\* an event stayed open, unchanged, over a tick inside the hysteresis band
C2_Witness ==
    /\ hist = <<95, 88>>
    /\ Active
    /\ Len(activeEvent[1].snapshots) = 1

\* C3: every crash event the recorder marked resolved has a non-empty snapshot
\* list, started_at equal to its first snapshot's timestamp, ended_at equal to
\* its last snapshot's timestamp, and started_at <= ended_at.
C3_ResolvedEventShape ==
    \A k \in DOMAIN crashEvents :
        crashEvents[k].resolved =>
            /\ Len(crashEvents[k].snapshots) > 0
            /\ crashEvents[k].started_at = crashEvents[k].snapshots[1].ts
            /\ crashEvents[k].ended_at =
                  crashEvents[k].snapshots[Len(crashEvents[k].snapshots)].ts
            /\ crashEvents[k].started_at <= crashEvents[k].ended_at

C3_Witness ==
    \E k \in DOMAIN crashEvents :
        crashEvents[k].resolved /\ Len(crashEvents[k].snapshots) >= 2

\* the second poll of the run cpu = 95, cpu = 40 from Idle, the other metrics
\* below 80: the active event was opened by the previous tick's poll
CrashLifecycleStep ==
    /\ Active
    /\ Len(activeEvent[1].snapshots) = 1
    /\ activeEvent[1].started_at = now - 1
    /\ gauges.cpu = 95 /\ gauges.mem < 80 /\ gauges.disk < 80 /\ gauges.gpu < 80
    /\ gauges'.cpu = 40 /\ gauges'.mem < 80 /\ gauges'.disk < 80 /\ gauges'.gpu < 80

\* exactly one event is persisted by the step, with the given severities allowed
CrashLifecycleOutcome(severities) ==
    LET id == activeEvent[1].id
    IN  /\ ~Active'
        /\ DOMAIN crashEvents' \ DOMAIN crashEvents = {id}
        /\ DOMAIN crashMeta' \ DOMAIN crashMeta = {id}
        /\ crashEvents'[id].trigger = <<"cpu", 950>>
        /\ Len(crashEvents'[id].snapshots) = 1
        /\ crashEvents'[id].resolved
        /\ crashEvents'[id].severity \in severities
        /\ crashMeta'[id].trigger = <<"cpu", 950>>
        /\ crashMeta'[id].snapshot_count = 1
        /\ crashMeta'[id].resolved
        /\ crashMeta'[id].severity \in severities
        /\ \E i \in DOMAIN ListCrashEvents(DefaultOpts)' :
              ListCrashEvents(DefaultOpts)'[i] = crashMeta'[id]

----------------------------------------------------------------------------
(* Store lifecycle, under SpecStore *)

OpenStep == ~dbOpen /\ dbOpen'

SyntheticIds(meta) == {k \in DOMAIN meta : meta[k].trigger = ForcefulTrigger}

\* C5: opening the store synthesizes a forceful-shutdown crash event if and
\* only if the previous session was not ended by Close, which is exactly when
\* app_state[status] is still "running"; an open after Close and the first
\* open of a fresh store leave both crash buckets as they were.
C5_SynthesizedIffNotClosed ==
    [][OpenStep =>
          /\ (lastExit = "kill") <=> (appStatus = "running")
          /\ (lastExit = "kill") <=> (SyntheticIds(crashMeta') # SyntheticIds(crashMeta))
          /\ lastExit \in {"close", "fresh"} =>
                 crashMeta' = crashMeta /\ crashEvents' = crashEvents]_vars

\* a session opened after a Close that still has the one event synthesized by
\* the open after the kill before it
C5_Witness ==
    /\ dbOpen
    /\ lastExit = "close"
    /\ nextId = 2
    /\ Cardinality(SyntheticIds(crashMeta)) = 1

\* C6: an open that finds app_state[status] = "running" adds exactly one crash
\* event, to both buckets, with trigger "Forceful Shutdown / Power Loss",
\* severity critical, resolved and snapshot count 0, and touches no other
\* event; after every open app_state[status] is "running".
C6_ExactlyOneSyntheticEvent ==
    [][OpenStep =>
          /\ appStatus' = "running"
          /\ appStatus = "running" =>
                \E id \in DOMAIN crashMeta' \ DOMAIN crashMeta :
                    /\ DOMAIN crashMeta' = DOMAIN crashMeta \cup {id}
                    /\ DOMAIN crashEvents' = DOMAIN crashEvents \cup {id}
                    /\ id \notin DOMAIN crashEvents
                    /\ crashMeta'[id].trigger = <<"Forceful Shutdown / Power Loss">>
                    /\ crashMeta'[id].severity = "critical"
                    /\ crashMeta'[id].resolved
                    /\ crashMeta'[id].snapshot_count = 0
                    /\ \A k \in DOMAIN crashMeta :
                           crashMeta'[k] = crashMeta[k] /\ crashEvents'[k] = crashEvents[k]]_vars

\* two unclean shutdowns, each followed by an open
C6_Witness ==
    /\ dbOpen
    /\ appStatus = "running"
    /\ Cardinality(SyntheticIds(crashMeta)) = 2

\* C7: crash_events and crash_meta always hold the same ids.
C7_BucketsHoldSameIds == DOMAIN crashEvents = DOMAIN crashMeta

\* a synthesized event is stored and the sweep has removed an older event
C7_Witness ==
    /\ SyntheticIds(crashMeta) # {}
    /\ Cardinality(DOMAIN crashMeta) < nextId - 1
    /\ DOMAIN crashEvents = DOMAIN crashMeta

----------------------------------------------------------------------------
(* Listing, under SpecStore *)

ListSeverities == {"", "critical", "HIGH"}
ListTriggers == {NoTrigger, <<"CPU", 950>>}
ListInstants == {0, 2}
ListPageSizes == {0, 1, 2}

ListOptsSet ==
    [page : {1}, page_size : ListPageSizes, severity : ListSeverities,
     trigger : ListTriggers, since : ListInstants, until : ListInstants]

ListPages == 1..(MaxIds + 1)

Page(opts, p) == ListCrashEvents([opts EXCEPT !.page = p])

\* what the filter settings ask for, on the instant started_at denotes
Wanted(cs, opts) ==
    /\ opts.severity # "" => Fold(cs.severity) = Fold(opts.severity)
    /\ opts.trigger # NoTrigger => FoldTrigger(cs.trigger) = FoldTrigger(opts.trigger)
    /\ opts.since # 0 => ParseRFC3339(cs.started_at) >= opts.since
    /\ opts.until # 0 => ParseRFC3339(cs.started_at) <= opts.until

PagesHolding(cs, opts) ==
    {p \in ListPages : \E i \in DOMAIN Page(opts, p) : Page(opts, p)[i] = cs}

\* every stored event is on exactly one page if it passes the filters, on none
\* if it does not
PagePartition ==
    \A opts \in ListOptsSet : \A k \in DOMAIN crashMeta :
        Cardinality(PagesHolding(crashMeta[k], opts)) =
            IF Wanted(crashMeta[k], opts) THEN 1 ELSE 0

RECURSIVE PagesInOrder(_, _)
PagesInOrder(opts, p) ==
    IF p > MaxIds + 1 THEN <<>> ELSE Page(opts, p) \o PagesInOrder(opts, p + 1)

\* the pages taken in order never list an event before a newer one
PagesNewestFirst ==
    \A opts \in ListOptsSet :
        \A i, j \in DOMAIN PagesInOrder(opts, 1) :
            i < j => ParseRFC3339(PagesInOrder(opts, 1)[i].started_at)
                       >= ParseRFC3339(PagesInOrder(opts, 1)[j].started_at)

\* C8: for every stored crash event, every filter setting and every page size
\* ListCrashEvents returns the event on exactly one page if it passes the
\* filters and on no page otherwise, and the pages in order list the events
\* newest first.
C8_ListedOnceNewestFirst == PagePartition /\ PagesNewestFirst

----------------------------------------------------------------------------
(* Worker pool, under SpecPool and SpecPoolFair *)

HeldBy(n) == {w \in WorkerIds : workers[w].job # <<>> /\ workers[w].job[1].n = n}

InQueue(n) == {i \in DOMAIN JobQueue : JobQueue[i].n = n}

\* every submitted job is in exactly one place and has been received at most once
JobInOnePlace ==
    \A n \in DOMAIN submitted :
        /\ taken[n] <= 1
        /\ Cardinality(InQueue(n)) + Cardinality(HeldBy(n))
             + (IF n \in processed THEN 1 ELSE 0) = 1
        /\ taken[n] = 0 <=> InQueue(n) # {}

\* C9: every submitted job is taken by at most one worker, is never lost, and
\* (workers that can run being scheduled) is eventually processed, exactly
\* once: whatever has been submitted, a state follows in which all of it has
\* been processed after one receive each.
AllSubmittedProcessedOnce ==
    \A n \in DOMAIN submitted : n \in processed /\ taken[n] = 1

C9_EachJobTakenExactlyOnce == []JobInOnePlace /\ []<>AllSubmittedProcessedOnce

\* two workers hold different jobs at the same time, a third job was processed
C9_Witness ==
    /\ \A w \in WorkerIds : w <= 2 => workers[w].pc = "body"
    /\ workers[1].job # workers[2].job
    /\ processed # {}

AttacksAbout(line) ==
    {k \in DOMAIN attacks :
        attacks[k].source_ip = line.ip /\ attacks[k].endpoint = line.path}

ProcessedWith(line) == {m \in processed : submitted[m].line = line}

\* C10: once a worker has processed a job, the store holds exactly one
\* AttackEntry with the record's source_ip and path per processed record that
\* was classified as an attack, and none for a record that was not.
C10_AttackPersistedPerDetection ==
    \A n \in processed :
        LET line == submitted[n].line
        IN  IF line.ok /\ AttackOf(line).detected
            THEN Cardinality(AttacksAbout(line)) = Cardinality(ProcessedWith(line))
            ELSE AttacksAbout(line) = {}

----------------------------------------------------------------------------
(* Anomaly detector, under SpecAnomaly *)

Called == lastCall # <<>>

\* Flood404 is returned only to a 404 of an ip whose own counter is above the
\* threshold when the call returns
FloodOnlyOnOwn404s ==
    [][lastCall' # <<>> /\ obs' # obs /\ lastCall'[1].result = Flood404 =>
          /\ lastCall'[1].status = 404
          /\ Stats'[lastCall'[1].ip].Count404 > Threshold404]_vars

\* C11: when the first calls of an ip are 404s sent within one second, the
\* first 10 of them return no anomaly and the 11th returns Flood404, however
\* the sweeper's tick falls between them.
C11_EleventhCallIsFirstFlood ==
    Called /\ obs[lastCall[1].ip].run # Over =>
        /\ obs[lastCall[1].ip].run <= Threshold404 => lastCall[1].result = NoAnomaly
        /\ obs[lastCall[1].ip].run = Threshold404 + 1 => lastCall[1].result = Flood404

\* C12: Check returns Flood404 only for a 404, and only when that ip has sent
\* more than capacity_404 404s faster than they are replenished: at the rate
\* of 10 tokens a second a bucket is full again a second later, so the ip
\* must have sent more than 10 404s at this instant of the clock.  The 404s
\* of other ips and other statuses do not count.
C12_FloodOnlyWhenOutpacingRefill ==
    Called /\ lastCall[1].result = Flood404 =>
        /\ lastCall[1].status = 404
        /\ obs[lastCall[1].ip].burst > Threshold404

----------------------------------------------------------------------------
(* Faults in the recorder, under SpecRecEnv and SpecRec *)

\* the events the recorder has closed: every id handed out but the active one
ResolvedIds ==
    {i \in 1..(nextId - 1) : activeEvent = Nil \/ activeEvent[1].id # i}

\* C13: an event whose write failed when it was closed is written on a later
\* close: once a later event has reached the store, every event resolved
\* before it is in the store too.
C13_FailedSaveRetriedOnNextClose ==
    \A i, j \in ResolvedIds :
        i < j /\ j \in DOMAIN crashMeta => i \in DOMAIN crashMeta

\* C14: the poll holds the active-event lock only to look at the event, to
\* append a snapshot and to detach the event; Analyze, fetchProcessDetails and
\* the store write never run while the lock is held.
C14_NoAnalysisOrWriteUnderLock ==
    underMu \cap {"Analyze", "fetchProcessDetails", "SaveCrashEvent"} = {}

\* C16: a panic inside one poll tick is contained to that tick: the process
\* is still up and the loop runs the next tick.
C16_PollPanicContained ==
    lastExit = "panic in poll" =>
        /\ process = "up"
        /\ now < MaxTick => ENABLED PollStep

----------------------------------------------------------------------------
(* Panics and shutdown in the pool, under SpecPoolPanic and SpecShutdown *)

\* C15: a panic raised while a worker processes one job does not reduce the
\* pool: the process is up with all its workers, and the jobs no worker has
\* taken yet are still queued for them.
C15_WorkerPanicContained ==
    lastExit = "panic in worker" =>
        /\ process = "up"
        /\ DOMAIN workers = WorkerIds
        /\ \A n \in DOMAIN submitted : taken[n] = 0 => InQueue(n) # {}

\* C17: on a shutdown signal the store's Close runs, so app_state[status] is
\* "stopped" once the process is gone, every submitted job has been processed
\* by then, and the next startup records no forceful-shutdown event.
C17_CooperativeShutdown ==
    /\ lastExit = "signal" /\ process = "down" =>
           appStatus = "stopped" /\ AllSubmittedProcessedOnce
    /\ lastExit = "signal" => SyntheticIds(crashMeta) = {}

----------------------------------------------------------------------------
(* The bounded queue, under SpecQueue *)

\* C18 as stated: the queue has capacity 1024; with no worker taking jobs the
\* first 1024 submits return and the 1025th blocks.
C18_Capacity1024 ==
    /\ Len(JobQueue) <= 1024
    /\ Len(JobQueue) < 1024 => ENABLED SubmitBurst
    /\ Len(JobQueue) = 1024 => ~ENABLED SubmitBurst

\* C18 (amended): the queue is bounded with capacity 1000 and Submit blocks
\* when it is full instead of dropping: with no worker taking jobs the first
\* 1000 submits return and are all queued in order, the 1001st blocks, and
\* the queue never holds more than 1000 jobs.
C18_Capacity1000SubmitBlocks ==
    /\ Len(JobQueue) <= QueueCapacity
    /\ Len(JobQueue) < QueueCapacity => ENABLED SubmitBurst
    /\ Len(JobQueue) = QueueCapacity => ~ENABLED SubmitBurst
    /\ JobQueue = submitted

\* the queue is full after 1000 submits
C18_Witness == Len(JobQueue) = QueueCapacity /\ Len(submitted) = QueueCapacity

----------------------------------------------------------------------------
(* Properties of the list options, checked under SpecOpts *)

Listed == query.op = "list_attacks"

\* the effective page size is within [1, MaxPageSize], a page size below 1
\* becomes the default and a page below 1 becomes 1
OptsNormalized ==
    Listed =>
        /\ query.result.page_size \in 1..MaxPageSize
        /\ query.opts.page_size < 1 => query.result.page_size = DefaultPageSize
        /\ query.opts.page_size \in 1..MaxPageSize => query.result.page_size = query.opts.page_size
        /\ query.result.page = IF query.opts.page < 1 THEN 1 ELSE query.opts.page

\* C19: list queries normalize their options: the effective page size is
\* always in [1, 100], a requested page size below 1 becomes 20, a requested
\* page size above 100 becomes 100, and a page below 1 becomes 1.
C19_PageSizeClampedTo100 ==
    Listed =>
        /\ query.result.page_size \in 1..MaxPageSize
        /\ query.opts.page_size < 1 => query.result.page_size = DefaultPageSize
        /\ query.opts.page_size > MaxPageSize => query.result.page_size = MaxPageSize
        /\ query.opts.page < 1 => query.result.page = 1

----------------------------------------------------------------------------
(* Properties of SaveAttack and ListAttacks, checked under SpecAttacks *)

\* the list was taken after a SaveAttack, with no other save in between
ListedAfterSave == Listed /\ query.saved # NoId /\ query.opts = FirstPageOpts

\* the saved entry is among the items and no item before it is older
SavedEntryLeads ==
    \E i \in DOMAIN query.result.items :
        /\ query.result.items[i].id = query.saved
        /\ \A j \in 1..(i - 1) :
              ParseRFC3339(query.result.items[j].timestamp)
                >= ParseRFC3339(query.result.items[i].timestamp)

\* C20: SaveAttack followed by ListAttacks(page=1, size=20) with no filters
\* returns the new entry, and no entry with an older timestamp precedes it,
\* also when other stored entries share its timestamp.
C20_SavedEntryOnFirstPage == ListedAfterSave => SavedEntryLeads

\* the same while the new entry shares its timestamp with fewer than a page of entries
SavedEntryLeadsWithinAPage ==
    (ListedAfterSave /\ query.result.total <= DefaultPageSize) => SavedEntryLeads

----------------------------------------------------------------------------
(* Properties of DeleteOldAttacks, checked under SpecPrune *)

Pruned == query.op = "delete_old_attacks"

\* the entries of a bucket stamped before the cutoff
StampedBefore(bucket, cutoff) ==
    {k \in DOMAIN bucket : ParseRFC3339(bucket[k].timestamp) < cutoff}

ItemsOf(result) == {result.items[i] : i \in DOMAIN result.items}

\* C21: DeleteOldAttacks(ttl) deletes exactly the attack entries whose
\* timestamp is before now - ttl, returns the number deleted, and leaves every
\* other entry listable (unchanged, and returned by ListAttacks).
C21_DeletesExactlyTheOld ==
    Pruned =>
        /\ DOMAIN attacks = DOMAIN query.before \ StampedBefore(query.before, query.cutoff)
        /\ \A k \in DOMAIN attacks : attacks[k] = query.before[k]
        /\ query.deleted = Cardinality(StampedBefore(query.before, query.cutoff))
        /\ ItemsOf(ListAttacks(FirstPageOpts)) = {attacks[k] : k \in DOMAIN attacks}
        /\ ListAttacks(FirstPageOpts).total = Cardinality(DOMAIN attacks)

AgesOf(bucket) == {now - ParseRFC3339(bucket[k].timestamp) : k \in DOMAIN bucket}

\* entries aged 31, 29 and 1 days, ttl 30 days: one deleted, two listed
C21_Witness ==
    /\ Pruned
    /\ now - query.cutoff = 30
    /\ Cardinality(DOMAIN query.before) = 3
    /\ AgesOf(query.before) = {31, 29, 1}
    /\ query.deleted = 1
    /\ AgesOf(attacks) = {29, 1}
    /\ Len(ListAttacks(FirstPageOpts).items) = 2

----------------------------------------------------------------------------
(* Closing twice, checked under SpecStore *)

ClosedTwice == query = [op |-> "close", again |-> TRUE]

\* a Close on a store that Close has already closed
SecondClose == ~dbOpen /\ lastExit = "close" /\ ~ClosedTwice /\ ClosedTwice'

Persisted == <<appStatus, crashEvents, crashMeta, heartbeat, attacks>>

----------------------------------------------------------------------------
(* Undecodable records, checked under SpecCorrupt *)

\* the bucket as it would be were its undecodable records absent
Sound(bucket) == Delete(bucket, {k \in DOMAIN bucket : bucket[k] = CorruptBlob})

AttackOptsSet ==
    [page : {1}, page_size : {0, 1}, severity : {"", "CRITICAL"}, service : {"", "web"},
     since : ListInstants, until : {0}]

CrashOptsSet == {opts \in ListOptsSet : opts.until = 0 /\ opts.page_size < 2}

\* whatever is asked, the three scans answer as they would on the sound buckets
ScansSkipCorrupt ==
    /\ \A opts \in CrashOptsSet :
          ListCrashEventsIn(crashMeta, opts) = ListCrashEventsIn(Sound(crashMeta), opts)
    /\ \A opts \in AttackOptsSet :
          ListAttacksIn(attacks, opts) = ListAttacksIn(Sound(attacks), opts)
    /\ GetStatsIn(crashMeta, attacks) = GetStatsIn(Sound(crashMeta), Sound(attacks))

\* a call of one of the three returns that answer
CallsSkipCorrupt ==
    query' # query =>
        CASE query'.op = "list_crash_events" ->
                 query'.items = ListCrashEventsIn(Sound(crashMeta), query'.opts)
          [] query'.op = "list_attacks" ->
                 query'.result = ListAttacksIn(Sound(attacks), query'.opts)
          [] query'.op = "get_stats" ->
                 query'.result = GetStatsIn(Sound(crashMeta), Sound(attacks))
          [] OTHER -> TRUE

\* C23: a persisted record whose JSON cannot be decoded is skipped by
\* ListCrashEvents, ListAttacks and GetStats without an error: every decodable
\* record of the bucket is returned or counted as if the corrupt record were
\* absent.
C23_CorruptRecordsSkipped == []ScansSkipCorrupt /\ [][CallsSkipCorrupt]_vars

\* statistics taken while crash_meta holds a damaged and a sound record
C23_Witness ==
    /\ query.op = "get_stats"
    /\ Sound(crashMeta) # crashMeta /\ Sound(crashMeta) # EmptyBucket
    /\ query.result.total_crashes = Cardinality(DOMAIN Sound(crashMeta))
    /\ query.result.total_attacks = Cardinality(DOMAIN Sound(attacks))

----------------------------------------------------------------------------
(* The statuses Check counts, checked under SpecStatus *)

IsCounted(status) == status = 404 \/ (status >= 500 /\ status <= 599)

CountsOf(stats, ip) ==
    IF ip \in DOMAIN stats THEN stats[ip].Count404 + stats[ip].Count500 ELSE 0

\* a step that is a call of Check
CheckStep == lastCall' # <<>> /\ obs' # obs

\* a status is counted exactly when it is 404 or in 500..599, and a status that
\* is not counted returns no anomaly
CountedExactlyWhen404Or5xx ==
    [][CheckStep =>
          /\ CountsOf(Stats', lastCall'[1].ip) =
                CountsOf(Stats, lastCall'[1].ip) + (IF IsCounted(lastCall'[1].status) THEN 1 ELSE 0)
          /\ ~IsCounted(lastCall'[1].status) => lastCall'[1].result = NoAnomaly]_vars

\* C24: Check counts a status exactly when it is 404 or in 500..599; for any
\* other status it returns no anomaly and leaves the ip mapping unchanged: no
\* entry is created for a new ip, and an existing entry's counters and
\* last_seen are not modified.
C24_IgnoredStatusLeavesMapping ==
    [][CheckStep =>
          /\ CountsOf(Stats', lastCall'[1].ip) =
                CountsOf(Stats, lastCall'[1].ip) + (IF IsCounted(lastCall'[1].status) THEN 1 ELSE 0)
          /\ ~IsCounted(lastCall'[1].status) =>
                lastCall'[1].result = NoAnomaly /\ Stats' = Stats]_vars

----------------------------------------------------------------------------
(* The order of the detection rules, checked under SpecAnalyzer *)

Analyzed == query.op = "detect_attack"

TargetSet(path) == {Targets(path)[i] : i \in DOMAIN Targets(path)}

\* the result is the first rule, in the order SQL injection, XSS, path
\* traversal, that some target matches; the scanner rule when none does
RuleMajor(path, ua) ==
    IF TargetSet(path) \cap SqliStrings # {}
    THEN [detected |-> TRUE, type |-> "SQL Injection", severity |-> "critical"]
    ELSE IF TargetSet(path) \cap XssStrings # {}
         THEN [detected |-> TRUE, type |-> "XSS", severity |-> "high"]
         ELSE IF TargetSet(path) \cap PathTravStrings # {}
              THEN [detected |-> TRUE, type |-> "Path Traversal", severity |-> "high"]
              ELSE IF ua \in ScannerStrings
                   THEN [detected |-> TRUE, type |-> "Scanner", severity |-> "medium"]
                   ELSE NotDetected

\* C25: DetectAttack applies its rules in order with first match winning over
\* the whole target set: SQL injection on any target wins over XSS or path
\* traversal on another, XSS over path traversal, and the scanner rule applies
\* only when no path rule matched.
C25_RulesInOrderOverAllTargets ==
    Analyzed => query.result = RuleMajor(query.path, query.ua)

\* the scanner rule applies exactly when no target matches a path rule, and a
\* path rule is reported only if some target matches it
ScannerOnlyWithoutPathMatch ==
    Analyzed =>
        /\ query.result.type = "Scanner" <=>
              /\ query.ua \in ScannerStrings
              /\ TargetSet(query.path) \cap (SqliStrings \cup XssStrings \cup PathTravStrings) = {}
        /\ query.result.type = "SQL Injection" => TargetSet(query.path) \cap SqliStrings # {}
        /\ query.result.type = "XSS" => TargetSet(query.path) \cap XssStrings # {}
        /\ query.result.type = "Path Traversal" => TargetSet(query.path) \cap PathTravStrings # {}

----------------------------------------------------------------------------
(* The memory rule of generateVerdict, checked under SpecForensics *)

Judged == query.op = "generate_verdict"

\* the process of a list that holds the most memory
TopMemOf(procs) == CHOOSE p \in {procs[i] : i \in DOMAIN procs} :
                      \A i \in DOMAIN procs : procs[i].rss <= p.rss

MemoryCase == Judged /\ query.last.mem > 80 /\ query.last.procs # <<>>

\* C26: when the last snapshot has total_mem_pct > 80 and a top memory process
\* exists, the memory-exhaustion verdict is chosen, before the CPU and GPU
\* rules, and its severity is critical exactly when that process's oom_score is
\* above 800: 800 gives high, 801 critical.
C26_MemoryRuleFirstCriticalOver800 ==
    MemoryCase =>
        /\ query.result[1] = "MEMORY EXHAUSTION"
        /\ query.result[2] = IF TopMemOf(query.last.procs).oom > 800 THEN "critical" ELSE "high"
        /\ TopMemOf(query.last.procs).oom = 800 => query.result[2] = "high"
        /\ TopMemOf(query.last.procs).oom = 801 => query.result[2] = "critical"

\* memory and cpu both high, a gpu nearly full, and the process holding the
\* most memory, not the first of the list, at an oom score of exactly 800
C26_Witness ==
    /\ MemoryCase
    /\ query.last.cpu > 90 /\ query.last.gpu > 95
    /\ Len(query.last.procs) = 2
    /\ TopMemOf(query.last.procs).oom = 800
    /\ query.result[1] = "MEMORY EXHAUSTION" /\ query.result[2] = "high"

----------------------------------------------------------------------------
(* top_processes of a snapshot, checked under SpecForensics *)

Snapped == query.op = "take_full_snapshot"

\* the two selections as takeFullSnapshot appends them
Appended(procs) == sortByCPU(procs, TopN) \o sortByMem(procs, TopN)

FirstIndex(s, pid) == CHOOSE i \in DOMAIN s : s[i].pid = pid /\ \A j \in 1..(i - 1) : s[j].pid # pid

\* C27: every snapshot takeFullSnapshot produces has pairwise distinct pids in
\* top_processes, whatever the process list, and keeps the first occurrence of
\* each process of the two selections, in their order.
C27_TopProcessesUniquePids ==
    Snapped =>
        LET out == query.snap.procs
            all == Appended(query.procs)
        IN  /\ \A i, j \in DOMAIN out : i # j => out[i].pid # out[j].pid
            /\ {out[i].pid : i \in DOMAIN out} = {all[i].pid : i \in DOMAIN all}
            /\ \A i \in DOMAIN out : out[i] = all[FirstIndex(all, out[i].pid)]
            /\ \A i, j \in DOMAIN out :
                  i < j => FirstIndex(all, out[i].pid) < FirstIndex(all, out[j].pid)

\* more processes than one selection holds, some of them in both selections
C27_Witness ==
    /\ Snapped
    /\ Len(query.procs) > TopN
    /\ Len(query.snap.procs) > TopN
    /\ Len(query.snap.procs) < 2 * TopN

----------------------------------------------------------------------------
(* isBlacklisted, checked under SpecSentinel *)

Asked == query.op = "is_blacklisted"

BlacklistTerms == {Blacklist[i] : i \in DOMAIN Blacklist}

\* the name equals the term but for the case of its letters
EqualFoldName(name, term) ==
    /\ Len(name) = Len(term)
    /\ \A i \in DOMAIN name : ToLowerChar(name[i]) = term[i]

\* C28: isBlacklisted(name) returns true exactly when the lower-cased name
\* equals a blacklist term, and then returns that term: a term that is only a
\* part of the name does not match, and the case of the name is ignored.
C28_ExactMatchIgnoringCase ==
    Asked =>
        /\ query.found <=> \E term \in BlacklistTerms : EqualFoldName(query.name, term)
        /\ query.found => query.term \in BlacklistTerms /\ EqualFoldName(query.name, query.term)
        /\ ~query.found => query.term = NoTerm

\* "NC-OPENBSD": the term "nc" is part of the lower-cased name, no term equals it
C28_Witness ==
    /\ Asked
    /\ ~query.found
    /\ Len(query.name) > 2
    /\ ToLower(query.name) # query.name
    /\ Contains(ToLower(query.name), <<"n", "c">>)

----------------------------------------------------------------------------
(* The trigger of a crash event, checked under SpecTrigger *)

MetricOrder == <<"cpu", "mem", "disk", "gpu">>

\* the metrics of a poll's readings that are at or above the threshold
Breached(g) == {i \in DOMAIN MetricOrder : g[MetricOrder[i]] >= threshold}

FirstBreached(g) == MetricOrder[Min(Breached(g))]

Opens == activeEvent = Nil /\ activeEvent' # Nil

BreachOnActive == activeEvent # Nil /\ activeEvent' # Nil /\ Breached(gauges') # {}

Closes == activeEvent # Nil /\ activeEvent' = Nil

\* C29: the trigger of an event is the first of cpu, mem, disk, gpu at or above
\* the threshold on the tick that opens it; a later breach tick appends its
\* snapshot and leaves id, started_at and trigger as they are, and the event
\* is stored with that trigger.
C29_TriggerFixedAtOpening ==
    [][ /\ Opens =>
             /\ Breached(gauges') # {}
             /\ activeEvent'[1].trigger =
                    TriggerString(FirstBreached(gauges'), gauges'[FirstBreached(gauges')])
             /\ activeEvent'[1].started_at = now
             /\ activeEvent'[1].id = nextId
        /\ BreachOnActive =>
             /\ activeEvent'[1].id = activeEvent[1].id
             /\ activeEvent'[1].started_at = activeEvent[1].started_at
             /\ activeEvent'[1].trigger = activeEvent[1].trigger
             /\ Len(activeEvent'[1].snapshots) = Len(activeEvent[1].snapshots) + 1
             /\ Front(activeEvent'[1].snapshots) = activeEvent[1].snapshots
             /\ Last(activeEvent'[1].snapshots).ts = now
        /\ Closes =>
             /\ activeEvent[1].id \in DOMAIN crashMeta'
             /\ crashMeta'[activeEvent[1].id].trigger = activeEvent[1].trigger
      ]_vars

\* an event opened on disk alone whose latest snapshot is a breach of cpu
C29_Witness ==
    /\ activeEvent # Nil
    /\ activeEvent[1].trigger[1] = "disk"
    /\ Len(activeEvent[1].snapshots) >= 2
    /\ Last(activeEvent[1].snapshots).cpu >= threshold
    /\ activeEvent[1].snapshots[1].cpu < threshold
    /\ activeEvent[1].started_at < Last(activeEvent[1].snapshots).ts

----------------------------------------------------------------------------
(* A save error when an event is closed, checked under SpecRecEnv *)

SaveFailed == query.op = "save_error"

\* a poll in the close branch while the store returns an error
FailedClose ==
    /\ activeEvent # Nil
    /\ commitFails \/ ~dbOpen
    /\ now' = now + 1
    /\ Breached(gauges') = {}
    /\ \A i \in DOMAIN MetricOrder : gauges'[MetricOrder[i]] < hysteresis

\* a poll that opens an event after a save error
OpensAfterSaveError == SaveFailed /\ Opens

\* C30: when SaveCrashEvent returns an error in the close branch the tick
\* still completes: the active event is cleared, nothing is stored, the
\* process goes on; the next breach opens a new event whose id is not the
\* lost event's and whose only snapshot is that tick's.
C30_SaveErrorDoesNotAbortTick ==
    [][ /\ FailedClose =>
             /\ activeEvent' = Nil
             /\ SaveFailed' /\ query'.event.id = activeEvent[1].id
             /\ crashEvents' = crashEvents /\ crashMeta' = crashMeta
             /\ process' = "up"
             /\ heartbeat' # Nil /\ heartbeat'[1].ts = now
        /\ OpensAfterSaveError =>
             /\ activeEvent'[1].id # query.event.id
             /\ activeEvent'[1].id \notin DOMAIN crashMeta
             /\ Len(activeEvent'[1].snapshots) = 1
             /\ activeEvent'[1].snapshots[1].ts = now
             /\ activeEvent'[1].started_at = now
             /\ activeEvent'[1].started_at > query.event.ended_at
             /\ ~activeEvent'[1].resolved
      ]_vars

\* the event lost to a save error is in neither bucket and a new event is active
C30_Witness ==
    /\ SaveFailed
    /\ query.event.id \notin DOMAIN crashMeta
    /\ query.event.id \notin DOMAIN crashEvents
    /\ activeEvent # Nil
    /\ activeEvent[1].id # query.event.id
    /\ process = "up"

----------------------------------------------------------------------------
(* One pass of the sweeper, checked under SpecAnomaly *)

SweepStep == nextSweep' # nextSweep

\* the pass removes the stale entries and no others, and keeps LastSeen
SweepRemovesExactlyStale ==
    [][SweepStep =>
         /\ DOMAIN Stats' = {ip \in DOMAIN Stats : ~Stale(Stats[ip])}
         /\ \A ip \in DOMAIN Stats' : Stats'[ip].LastSeen = Stats[ip].LastSeen]_vars

\* C31: a pass of the sweeper removes exactly the entries with
\* now - LastSeen > Window and changes nothing else: every entry that is not
\* stale is after the pass what it was before.
C31_SweepKeepsActiveEntries ==
    [][SweepStep =>
         /\ DOMAIN Stats' = {ip \in DOMAIN Stats : ~Stale(Stats[ip])}
         /\ \A ip \in DOMAIN Stats' : Stats'[ip] = Stats[ip]]_vars

----------------------------------------------------------------------------
(* The summaries the recorder stores, checked under SpecRec *)

\* the seconds the stored events lasted, by the events themselves
StoredSeconds ==
    SumOver([id \in DOMAIN crashEvents |->
                crashEvents[id].ended_at - crashEvents[id].started_at], DOMAIN crashEvents)

\* C32: the summary stored when the recorder closes an event carries the
\* event's ended_at and verdict, and the average duration of GetStats is the
\* mean of ended_at - started_at over the stored events.
C32_SummaryCarriesEndAndVerdict ==
    /\ \A id \in DOMAIN crashMeta :
          /\ ParseRFC3339(crashMeta[id].ended_at) = crashEvents[id].ended_at
          /\ crashMeta[id].verdict = crashEvents[id].verdict
    /\ crashMeta # EmptyBucket =>
          GetStatsIn(crashMeta, attacks).avg_duration_sec =
              <<StoredSeconds, Cardinality(DOMAIN crashEvents)>>

\* what holds instead: the summary has no ended_at and no verdict, and the
\* average is 0 whatever the events lasted
SummaryWithoutEndAndVerdict ==
    /\ \A id \in DOMAIN crashMeta :
          /\ crashMeta[id].ended_at = EmptyStamp
          /\ crashMeta[id].verdict = ""
          /\ ParseRFC3339(crashMeta[id].started_at) = crashEvents[id].started_at
    /\ GetStatsIn(crashMeta, attacks).avg_duration_sec[1] = 0

\* an event that lasted is stored
LastingEventStored ==
    \E id \in DOMAIN crashEvents : crashEvents[id].ended_at > crashEvents[id].started_at

----------------------------------------------------------------------------
(* The closing sentence of the memory verdict, checked under SpecForensics *)

AnalyzedEvent == query.op = "analyze"

MemoryVerdict == AnalyzedEvent /\ query.result[1] = "MEMORY EXHAUSTION"

\* memory of the last snapshot more than 5 over the third from last
MemoryClimbing(snapshots) ==
    /\ Len(snapshots) >= 3
    /\ Last(snapshots).mem > snapshots[Len(snapshots) - 2].mem + 5

\* cpu of the last snapshot more than 10 over the third from last
CpuClimbing(snapshots) ==
    /\ Len(snapshots) >= 3
    /\ Last(snapshots).cpu > snapshots[Len(snapshots) - 2].cpu + 10

\* C33: in the memory verdict the sentence "Memory was climbing rapidly in the
\* seconds before crash." is appended exactly when there are at least three
\* snapshots and the last memory reading is more than 5 over the third from
\* last; a cpu rise of more than 10 with flat memory sets the spike flag and
\* appends nothing.
C33_ClimbingSentenceOnlyForMemory ==
    /\ MemoryVerdict =>
          (query.result[3] = ClimbingSentence <=> MemoryClimbing(query.snapshots))
    /\ AnalyzedEvent /\ CpuClimbing(query.snapshots) => query.spike

\* what holds instead: the sentence follows the one spike flag, which a rise
\* of memory or of cpu sets
ClimbingSentenceFollowsSpikeFlag ==
    /\ MemoryVerdict =>
          (query.result[3] = ClimbingSentence
              <=> MemoryClimbing(query.snapshots) \/ CpuClimbing(query.snapshots))
    /\ AnalyzedEvent =>
          (query.spike <=> MemoryClimbing(query.snapshots) \/ CpuClimbing(query.snapshots))
    /\ AnalyzedEvent /\ ~MemoryVerdict => query.result[3] = ""

\* memory flat at 85, cpu up from 40 to 51 over three snapshots
CpuRiseWithFlatMemory ==
    /\ MemoryVerdict
    /\ CpuClimbing(query.snapshots)
    /\ ~MemoryClimbing(query.snapshots)

----------------------------------------------------------------------------
(* Concurrent polls, checked under SpecForcePoll *)

\* goroutine g leaves the close branch in this step
CloseBranchStep(g) == InCloseBranch(g) /\ pollers'[g].pc = "idle"

\* an event is opened only while none is active
OneActiveEventAtATime ==
    [][eventCount' > eventCount => activeEvent = Nil /\ activeEvent' # Nil]_vars

\* C34: poll may run in two goroutines at once: an event is opened only while
\* none is active, and a poll that saw an active event and takes the close
\* branch finds the event still there; no poll ends the process.
C34_ConcurrentPollsAreSafe ==
    [][ /\ eventCount' > eventCount => activeEvent = Nil /\ activeEvent' # Nil
        /\ \A g \in Goroutines : CloseBranchStep(g) => activeEvent # Nil
        /\ process = "up" => process' = "up" ]_vars

\* the process ended by the close branch of a poll that found no event
PanickedInCloseBranch == process = "down" /\ lastExit = "panic in poll" /\ eventCount = 1

----------------------------------------------------------------------------
(* GetEvent while the monitoring loop polls, checked under SpecGetEvent *)

GotEvent == query.op = "get_event" /\ query.pc = "done"

----------------------------------------------------------------------------
(* GetSnapshots, checked under SpecSnapshots *)

AskedSnapshots == query.op = "get_snapshots"

SnapshotSet(seq) == {seq[i] : i \in DOMAIN seq}

\* the snapshots of a set in the order of their timestamps
RECURSIVE Chronological(_)
Chronological(S) ==
    IF S = {} THEN <<>>
    ELSE LET first == CHOOSE x \in S : \A y \in S : x.ts <= y.ts
         IN  <<first>> \o Chronological(S \ {first})

\* the n latest of the snapshots, oldest first
MostRecent(S, n) == SubSeq(Chronological(S), Cardinality(S) - n + 1, Cardinality(S))

\* C36: GetSnapshots(n) with 0 < n <= available returns exactly n snapshots,
\* the n most recent ones in chronological order: no snapshot of the active
\* event gives way to a snapshot of an older stored event.
C36_MostRecentSnapshots ==
    AskedSnapshots /\ 0 < query.n /\ query.n <= Len(query.all) =>
        /\ Len(query.result) = query.n
        /\ query.result = MostRecent(SnapshotSet(query.all), query.n)

\* what holds instead: exactly n snapshots, the last n of the list that starts
\* with the active event and goes on through the stored events, newest first
LastOfTheList ==
    AskedSnapshots /\ 0 < query.n /\ query.n <= Len(query.all) =>
        /\ Len(query.result) = query.n
        /\ \A i \in 1..query.n :
              query.result[i] = query.all[Len(query.all) - query.n + i]

\* one snapshot asked for with an event stored and a later one active: the
\* stored event's snapshot is returned
ActiveSnapshotDropped ==
    /\ AskedSnapshots /\ query.n = 1
    /\ activeEvent # Nil
    /\ crashEvents # EmptyBucket
    /\ Len(query.all) >= 2
    /\ query.result[1].ts < activeEvent[1].started_at

----------------------------------------------------------------------------
(* The active-sessions gauge, checked under SpecSsh *)

CountOf(fed, type) == Cardinality({i \in DOMAIN fed : fed[i] = type})

\* the gauge is the logins that succeeded less the disconnects
GaugeIsLoginsLessDisconnects ==
    /\ sshMetrics.SSHActiveSessions =
          CountOf(FedSoFar, "SSHLoginSuccess") - CountOf(FedSoFar, "SSHDisconnect")
    /\ sshMetrics.SSHDisconnects = CountOf(FedSoFar, "SSHDisconnect")

\* C37: after any sequence of SSH events handed to ProcessSSH the
\* active-sessions gauge is the number of LoginSuccess events less the number
\* of Disconnect events, and it is never negative.
C37_ActiveSessionsNeverNegative ==
    /\ sshMetrics.SSHActiveSessions =
          CountOf(FedSoFar, "SSHLoginSuccess") - CountOf(FedSoFar, "SSHDisconnect")
    /\ sshMetrics.SSHActiveSessions >= 0

\* a failed login and the disconnect that follows it leave the gauge at -1
NegativeGauge ==
    /\ FedSoFar = <<"SSHLoginFailed", "SSHDisconnect">>
    /\ sshMetrics.SSHActiveSessions = -1

====
